---- MODULE Spec2Model ----
(***************************************************************************)
(* Vector store engine of cogitatio-server: the FAISS index held in        *)
(* memory by VectorManager, the SQLite metadata table beside it, and the   *)
(* index file with its backup sibling.                                      *)
(*                                                                          *)
(* Embeddings are vectors of the plane in polar form: a direction (a       *)
(* multiple of 90 degrees) and a length.  Normalising to unit length drops *)
(* the length; the inner product of two vectors is the product of their    *)
(* lengths and the cosine of the angle between them, an integer here.      *)
(***************************************************************************)
EXTENDS Integers, Sequences, FiniteSets, TLC

VARIABLES
    index,      \* VectorManager.index: the unit vectors, position p at index[p + 1]
    rows,       \* the rows of the metadata table of metadata.db
    primary,    \* the file vectors.index
    backup,     \* the file vectors.backup.index
    last,       \* the last call: its name, its doc_id argument, how it ended and why
    document_map,   \* DocumentProcessor.document_map: path -> doc_id
    sources,        \* the markdown files under DOCUMENTS_DIR: path -> what the file holds
    issued,         \* the doc_ids uuid4 has handed out
    deleted,        \* the paths with a deleted event the watcher has still to deliver
    processed,      \* per path, what its last process_document that returned left
    body,           \* the content _prepare_chunks is called with
    chunks,         \* the chunks _prepare_chunks returned for it
    table,          \* the metadata table DocumentStore reads, its rows by vector_id
    document,       \* the last read of DocumentStore: the call and what it gave
    pending_changes,\* DocumentHandler.pending_changes: path -> time of its newest event
    timers,         \* the Timer threads started and not yet run
    running,        \* the process_change that holds processing_lock, if one does
    clock,          \* what time.time() returned last
    events,         \* per path, the number of created/modified events handled
    calls,          \* per path, the number of process_document calls of process_change
    newest,         \* per path, the time handle_change read for its newest event
    late,           \* per path, whether an event was handled after a timer of it had run
    served,         \* per path, how many of its events process_change's last call came after
    api_index,      \* the index in memory of the API server's own VectorManager
    api_up,         \* the API server has run its lifespan startup
    removal,        \* the remove_document that has swapped the index and not yet committed
    search,         \* the search_similar that holds the result of index.search
    answer,         \* what the last search_similar gave
    reprocessing    \* the process_all_documents(force_reprocess=True) under way

\* the state of the pipeline, the argument and result of _prepare_chunks, and
\* what DocumentStore reads and returns
pipeline == <<document_map, sources, issued, deleted, processed>>
chunking == <<body, chunks>>
reading == <<table, document>>
watching ==
    <<pending_changes, timers, running, clock, events, calls, newest, late, served>>

serving == <<api_index, api_up, removal, search, answer>>

vars ==
    <<index, rows, primary, backup, last, pipeline, chunking, reading, watching, serving,
      reprocessing>>

----------------------------------------------------------------------------
(* Bounds of the model *)

\* the index never holds more vectors than this
MaxVectors == 2

(* config.py *)
VECTOR_DIMENSION == 1024

(* The inputs the operations are called with *)
DocIds == {<<"a">>, <<"a", "b">>}
Types == {"project", "other"}
Directions == {0, 1, 2}
Lengths == {1, 2}
Dimensions == {VECTOR_DIMENSION, VECTOR_DIMENSION - 1}
BatchSizes == {1, 2}
\* k of a search, and the filter_types of search_similar ({} for None)
Ks == {1, 2}
Filters == SUBSET Types

\* the type a document's front-matter declares, carried in each chunk's metadata
DocType(doc_id) == IF doc_id = <<"a">> THEN "project" ELSE "other"

\* chunk_id = f"{doc_id}_{idx}"
ChunkIdOf(doc_id, idx) == <<doc_id, idx>>

\* the chunks stored: two of document "a", one of document "ab"
ChunkIds == {ChunkIdOf(<<"a">>, 0), ChunkIdOf(<<"a">>, 1), ChunkIdOf(<<"a", "b">>, 0)}

Embeddings == [dim : Dimensions, dir : Directions, len : Lengths]

\* the embedding of each chunk's text: a_1 and ab_0 differ in length only
Direction(chunk_id) == IF chunk_id[1] = <<"a">> THEN chunk_id[2] ELSE chunk_id[2] + 1
Length(chunk_id) == IF chunk_id = ChunkIdOf(<<"a">>, 1) THEN 2 ELSE 1

\* one element of the list store_vectors takes
VectorRecords ==
    {[id |-> c[1], chunk_id |-> c, type |-> DocType(c[1]),
      values |-> [dim |-> dm, dir |-> Direction(c), len |-> Length(c)]] :
        c \in ChunkIds, dm \in Dimensions}

Batches == UNION {[1..n -> VectorRecords] : n \in BatchSizes}

----------------------------------------------------------------------------
(* Vectors *)

Abs(x) == IF x < 0 THEN -x ELSE x

\* cosine of the angle between two directions: 1, 0, -1 for 0, 90, 180 degrees
Cos(d1, d2) == 1 - Abs(d1 - d2)

\* np.linalg.norm
Norm(e) == e.len

\* v / np.linalg.norm(v): the direction is kept, the length becomes 1
Normalize(e) == [e EXCEPT !.len = e.len \div Norm(e)]

\* IndexFlatIP's metric
InnerProduct(u, v) == u.len * v.len * Cos(u.dir, v.dir)

----------------------------------------------------------------------------
(* Files *)

Absent == [st |-> "absent", ix |-> <<>>]
Corrupt == [st |-> "corrupt", ix |-> <<>>]
IndexFile(ix) == [st |-> "valid", ix |-> ix]

Exists(f) == f.st # "absent"
Parses(f) == f.st = "valid"


\* faiss.write_index(IndexFlatIP(dimension)): the file of an index with no vectors
EmptyIndex == <<>>

(***************************************************************************)
(* _save_index.  The outcome is what the file system does to the call:     *)
(* "ok", "write_fails" (faiss.write_index raises), or the process dying    *)
(* after the rename ("crash_renamed"), during the write ("crash_writing")  *)
(* or after the write and before the unlink ("crash_written").             *)
(***************************************************************************)
SaveOutcomes == {"ok", "write_fails", "crash_renamed", "crash_writing", "crash_written"}

SaveIndex(ix, p, b, outcome) ==
    LET \* index_path.rename(backup_path), when index_path exists
        p1 == IF Exists(p) THEN Absent ELSE p
        b1 == IF Exists(p) THEN p ELSE b
    IN  CASE outcome = "ok" ->
                \* written, then backup_path.unlink() if it exists
                [primary |-> IndexFile(ix), backup |-> Absent, end |-> "returned"]
          [] outcome = "write_fails" ->
                \* the except branch: backup_path.rename(index_path) if it exists
                IF Exists(b1)
                    THEN [primary |-> b1, backup |-> Absent, end |-> "raised"]
                    ELSE [primary |-> Corrupt, backup |-> b1, end |-> "raised"]
          [] outcome = "crash_renamed" ->
                [primary |-> p1, backup |-> b1, end |-> "crashed"]
          [] outcome = "crash_writing" ->
                [primary |-> Corrupt, backup |-> b1, end |-> "crashed"]
          [] outcome = "crash_written" ->
                [primary |-> IndexFile(ix), backup |-> b1, end |-> "crashed"]

(***************************************************************************)
(* _load_or_create_index: the index the constructor ends with, the files   *)
(* it leaves, and the branch taken.                                        *)
(***************************************************************************)
LoadOrCreateIndex(p, b) ==
    IF Exists(p) /\ Parses(p)
        THEN [index |-> p.ix, primary |-> p, backup |-> b, how |-> "primary"]
    ELSE IF Exists(p) /\ Exists(b) /\ Parses(b)
        THEN [index |-> b.ix, primary |-> p, backup |-> b, how |-> "backup"]
    ELSE [index |-> EmptyIndex, primary |-> IndexFile(EmptyIndex), backup |-> b,
          how |-> "created"]

----------------------------------------------------------------------------
(* The metadata table *)

Row(vector_id, vec) ==
    [vector_id |-> vector_id, doc_id |-> vec.id, chunk_id |-> vec.chunk_id,
     type |-> vec.type]

\* INSERT OR REPLACE: vector_id is the PRIMARY KEY and chunk_id is UNIQUE, so the
\* rows in conflict on either are deleted and the new row is inserted
InsertOrReplace(rs, r) ==
    {x \in rs : x.vector_id # r.vector_id /\ x.chunk_id # r.chunk_id} \cup {r}

\* the loop of store_vectors over enumerate(vectors), from the i-th vector on
RECURSIVE InsertRows(_, _, _, _)
InsertRows(rs, batch, start_idx, i) ==
    IF i > Len(batch) THEN rs
    ELSE InsertRows(InsertOrReplace(rs, Row(start_idx + i - 1, batch[i])),
                    batch, start_idx, i + 1)

\* doc_id LIKE f"{doc_id}%": the column value starts with the argument
Like(value, doc_id) ==
    /\ Len(value) >= Len(doc_id)
    /\ SubSeq(value, 1, Len(doc_id)) = doc_id

\* SELECT vector_id, chunk_id FROM metadata WHERE doc_id LIKE ?
SelectLike(rs, doc_id) == {r \in rs : Like(r.doc_id, doc_id)}

\* a faulty DELETE, which removes one of the selected rows only: DeletionCompleteness
\* fails with it in place of DeleteLike
DeleteLikeOne(rs, doc_id) ==
    IF SelectLike(rs, doc_id) = {} THEN rs
    ELSE rs \ {CHOOSE r \in SelectLike(rs, doc_id) : TRUE}

\* DELETE FROM metadata WHERE doc_id LIKE ?
DeleteLike(rs, doc_id) == {r \in rs : ~Like(r.doc_id, doc_id)}

\* SELECT ... FROM metadata WHERE chunk_id = ?
SelectChunk(rs, chunk_id) == {r \in rs : r.chunk_id = chunk_id}

\* DELETE FROM metadata WHERE chunk_id = ?
DeleteChunk(rs, chunk_id) == {r \in rs : r.chunk_id # chunk_id}

\* SELECT COUNT(DISTINCT doc_id) FROM metadata
CountDocuments(rs) == Cardinality({r.doc_id : r \in rs})

----------------------------------------------------------------------------
(* The index in memory *)

\* the rows of vector_data: each embedding divided by its norm
VectorData(batch) ==
    [i \in DOMAIN batch |-> [vec |-> Normalize(batch[i].values), src |-> batch[i].chunk_id]]

\* np.array([v['values'] for v in vectors]): a ragged list is no 2-d array
IsArray(batch) ==
    \A i, j \in DOMAIN batch : batch[i].values.dim = batch[j].values.dim

\* an index.add without the assertion on the dimension: MalformedBatchRejected fails
\* with it in place of IndexAdd
IndexAddUnchecked(ix, data) == [raised |-> FALSE, index |-> ix \o data]

\* faiss index.add: asserts d == self.d, then appends every row
IndexAdd(ix, data) ==
    IF \A i \in DOMAIN data : data[i].vec.dim = VECTOR_DIMENSION
        THEN [raised |-> FALSE, index |-> ix \o data]
        ELSE [raised |-> TRUE, index |-> ix]

\* [self.index.reconstruct(i) for i in range(self.index.ntotal) if i not in ids],
\* from position i on, each kept vector normalised again and added to the new index
RECURSIVE Rebuild(_, _, _)
Rebuild(ix, ids, i) ==
    IF i >= Len(ix) THEN <<>>
    ELSE (IF i \in ids THEN <<>>
          ELSE <<[ix[i + 1] EXCEPT !.vec = Normalize(ix[i + 1].vec)]>>)
         \o Rebuild(ix, ids, i + 1)


----------------------------------------------------------------------------
(* Searching *)

Min(a, b) == IF a < b THEN a ELSE b

\* the vectors a search is called with: of the index's dimension, of any length
Queries == {e \in Embeddings : e.dim = VECTOR_DIMENSION}

\* the queries of unit length, as an embedding provider that normalises gives them
UnitQueries == {q \in Queries : Norm(q) = 1}

\* the orders in which faiss may list all positions: by decreasing inner product
\* with the query, equal products in either order
Rankings(ix, q) ==
    {r \in [1..Len(ix) -> 0..(Len(ix) - 1)] :
        /\ \A i, j \in 1..Len(ix) : i # j => r[i] # r[j]
        /\ \A i, j \in 1..Len(ix) :
            i < j => InnerProduct(ix[r[i] + 1].vec, q) >= InnerProduct(ix[r[j] + 1].vec, q)}

\* what faiss puts where the index has fewer than k vectors: label -1 and a
\* distance below every inner product
Unfilled == [dist |-> -5, idx |-> -1]

\* index.search(q, k): the k best (distance, position) pairs, best first
IndexSearch(ix, q, k) ==
    {[i \in 1..k |-> IF i <= Len(ix)
                     THEN [dist |-> InnerProduct(ix[r[i] + 1].vec, q), idx |-> r[i]]
                     ELSE Unfilled] : r \in Rankings(ix, q)}

\* SELECT ... FROM metadata WHERE vector_id = ?  (fetchone: no row or one row)
SelectVector(rs, vector_id) == {r \in rs : r.vector_id = vector_id}

\* the score search_similar gives a hit
Score(dist) == 1 - dist

\* a loop that keeps every hit that has a row, of whatever type: FilteredSearch
\* fails with it in place of SimilarLoop
RECURSIVE SimilarLoopAnyType(_, _, _, _, _, _)
SimilarLoopAnyType(rs, hits, i, k, filter_types, results) ==
    IF i > Len(hits) THEN results
    ELSE LET meta_row == {r \in rs : r.vector_id = hits[i].idx}
         IN  IF hits[i].idx = -1 \/ meta_row = {}
             THEN SimilarLoopAnyType(rs, hits, i + 1, k, filter_types, results)
             ELSE LET row == CHOOSE r \in meta_row : TRUE
                      found == Append(results,
                                      [doc_id |-> row.doc_id, chunk_id |-> row.chunk_id,
                                       score |-> 1 - hits[i].dist, type |-> row.type])
                  IN  IF Len(found) >= k THEN found
                      ELSE SimilarLoopAnyType(rs, hits, i + 1, k, filter_types, found)

\* the for loop of search_similar from the i-th hit on, results being those collected
RECURSIVE SimilarLoop(_, _, _, _, _, _)
SimilarLoop(rs, hits, i, k, filter_types, results) ==
    IF i > Len(hits) THEN results
    ELSE LET meta_row == SelectVector(rs, hits[i].idx)
         IN  IF hits[i].idx = -1 \/ meta_row = {}
             THEN SimilarLoop(rs, hits, i + 1, k, filter_types, results)
             ELSE LET row == CHOOSE r \in meta_row : TRUE
                      found == Append(results,
                                      [doc_id |-> row.doc_id, chunk_id |-> row.chunk_id,
                                       score |-> Score(hits[i].dist), type |-> row.type])
                  IN  IF filter_types = {} \/ row.type \in filter_types
                      THEN IF Len(found) >= k THEN found
                           ELSE SimilarLoop(rs, hits, i + 1, k, filter_types, found)
                      ELSE SimilarLoop(rs, hits, i + 1, k, filter_types, results)

\* DocumentStore.search_similar: the lists it may return (the query is not normalised)
SearchSimilar(ix, rs, q, k, filter_types) ==
    LET search_k == IF filter_types # {} THEN k * 2 ELSE k
    IN  {SubSeq(res, 1, Min(k, Len(res))) :
            res \in {SimilarLoop(rs, hits, 1, k, filter_types, <<>>) :
                        hits \in IndexSearch(ix, q, search_k)}}

\* VectorManager.search_vectors: the (distances, metadata_list) pairs it may return,
\* an entry of metadata_list being the row found, or None (the empty set)
SearchVectors(ix, rs, q, k) ==
    {[distances |-> [i \in 1..k |-> hits[i].dist],
      metadata_list |-> [i \in 1..k |-> IF hits[i].idx # -1
                                        THEN SelectVector(rs, hits[i].idx) ELSE {}]] :
        hits \in IndexSearch(ix, Normalize(q), k)}

----------------------------------------------------------------------------
(* The operations of VectorManager *)

NoDoc == <<>>
Ended(op, doc, end, why) == [op |-> op, doc |-> doc, end |-> end, why |-> why]

\* a call needs a live process: after a crash only the constructor runs
Running == last.end # "crashed"

\* what is left of the index in memory when a call ends: nothing once the process died
InMemory(ix, end) == IF end = "crashed" THEN EmptyIndex ELSE ix

\* why a call that reached _save_index ended as it did
Why(end) == IF end = "returned" THEN "none" ELSE "save"

\* the paths of the markdown files watched
Paths == {"p.md", "q.md"}

\* what a file holds: no file at the path, or a file of a kind
NoMetadata == [type |-> "", title |-> "", sub_type |-> ""]
NoFile == [kind |-> "absent", metadata |-> NoMetadata, body |-> <<>>]

\* no process_document has returned for the path
NoEntry ==
    [doc_id |-> NoDoc, chunk_ids |-> {}, total |-> 0, source |-> NoFile,
     deleted |-> FALSE]

\* DocumentProcessor.__init__ (document_map = {}), before any file exists or is read
PipelineInit ==
    /\ document_map = [path \in Paths |-> NoDoc]
    /\ sources = [path \in Paths |-> NoFile]
    /\ issued = {}
    /\ deleted = {}
    /\ processed = [path \in Paths |-> NoEntry]

ChunkingIdle == body = <<>> /\ chunks = <<>>

\* None, among the strings
None == "None"

\* what a read of DocumentStore gave: the call, how it ended, and its result
Read(op, end, why, metadata, content, found) ==
    [op |-> op, end |-> end, why |-> why, metadata |-> metadata, content |-> content,
     chunks |-> found]

\* no row in the table, nothing read
ReadingIdle == table = <<>> /\ document = Read(None, "returned", None, <<>>, <<>>, <<>>)

\* pending_changes.get(path) when the path has no entry; the times are 0 and up
NoTime == -1

\* DocumentHandler.__init__: pending_changes = {}, no timer started, the lock free
WatchingIdle ==
    /\ pending_changes = [path \in Paths |-> NoTime]
    /\ timers = {}
    /\ running = {}
    /\ clock = 0
    /\ events = [path \in Paths |-> 0]
    /\ calls = [path \in Paths |-> 0]
    /\ newest = [path \in Paths |-> NoTime]
    /\ late = [path \in Paths |-> FALSE]
    /\ served = [path \in Paths |-> 0]

\* no remove_document and no search_similar is under way
NoRemoval == [stage |-> "idle", doc_id |-> NoDoc]

\* no process_all_documents has been called: nothing found, nothing counted
NoRun ==
    [stage |-> "idle", found |-> {}, todo |-> {}, processed |-> 0, errors |-> 0,
     returned |-> {}, log |-> <<>>, before |-> {}]
NoSearch ==
    [stage |-> "idle", hits |-> <<>>, at |-> <<>>, k |-> 0, filter_types |-> {},
     sound |-> TRUE, overlap |-> FALSE]

\* what a search_similar gave: how it ended, its results, and of the positions it
\* looked up those without a row (missing) and those whose row is of another
\* chunk than the vector index.search found there (crossed)
Answer(end, results, missing, crossed, sound, overlap) ==
    [end |-> end, results |-> results, missing |-> missing, crossed |-> crossed,
     sound |-> sound, overlap |-> overlap]

\* the API server starts as the processor has made its files: it loads their index
ServingIdle ==
    /\ api_index = EmptyIndex
    /\ api_up = FALSE
    /\ removal = NoRemoval
    /\ search = NoSearch
    /\ answer = Answer("none", <<>>, {}, {}, TRUE, FALSE)

Init ==
    LET made == LoadOrCreateIndex(Absent, Absent)
    IN  /\ index = made.index
        /\ rows = {}
        /\ primary = made.primary
        /\ backup = made.backup
        /\ last = Ended("construct", NoDoc, "returned", made.how)
        /\ PipelineInit
        /\ ChunkingIdle
        /\ ReadingIdle
        /\ WatchingIdle
        /\ ServingIdle
        /\ reprocessing = NoRun
    /\ ServingIdle
    /\ reprocessing = NoRun
    /\ WatchingIdle
    /\ ServingIdle
    /\ reprocessing = NoRun

\* VectorManager(): _load_or_create_index, then _init_db (CREATE TABLE IF NOT EXISTS)
Construct ==
    LET made == LoadOrCreateIndex(primary, backup)
    IN  /\ index' = made.index
        /\ primary' = made.primary
        /\ backup' = made.backup
        /\ last' = Ended("construct", NoDoc, "returned", made.how)
        /\ UNCHANGED rows

StoreVectors(batch, outcome) ==
    /\ Running
    /\ LET added == IF IsArray(batch) THEN IndexAdd(index, VectorData(batch))
                    ELSE [raised |-> TRUE, index |-> index]
       IN  IF added.raised
           THEN /\ index' = added.index
                /\ last' = Ended("store_vectors", NoDoc, "raised", "dimension")
                /\ UNCHANGED <<rows, primary, backup>>
           ELSE /\ Len(added.index) <= MaxVectors
                /\ LET saved == SaveIndex(added.index, primary, backup, outcome)
                   IN  /\ index' = InMemory(added.index, saved.end)
                       \* the with block has committed before _save_index is called
                       /\ rows' = InsertRows(rows, batch, Len(index), 1)
                       /\ primary' = saved.primary
                       /\ backup' = saved.backup
                       /\ last' = Ended("store_vectors", NoDoc, saved.end, Why(saved.end))

RemoveDocument(doc_id, outcome) ==
    /\ Running
    /\ LET vector_entries == SelectLike(rows, doc_id)
           vector_ids_set == {r.vector_id : r \in vector_entries}
           new_index == Rebuild(index, vector_ids_set, 0)
           saved == SaveIndex(new_index, primary, backup, outcome)
       IN  IF vector_entries = {}
           THEN /\ last' = Ended("remove_document", doc_id, "returned", "not_found")
                /\ UNCHANGED <<index, rows, primary, backup>>
           ELSE /\ index' = InMemory(new_index, saved.end)
                \* _save_index runs inside the with block: the DELETE is committed
                \* when it returns and rolled back when it raises
                /\ rows' = IF saved.end = "returned" THEN DeleteLike(rows, doc_id) ELSE rows
                /\ primary' = saved.primary
                /\ backup' = saved.backup
                /\ last' = Ended("remove_document", doc_id, saved.end, Why(saved.end))

RemoveVectorByChunkId(chunk_id, outcome) ==
    /\ Running
    /\ LET result == SelectChunk(rows, chunk_id)
           new_index == Rebuild(index, {r.vector_id : r \in result}, 0)
           saved == SaveIndex(new_index, primary, backup, outcome)
       IN  IF result = {}
           THEN /\ last' = Ended("remove_vector_by_chunk_id", NoDoc, "returned", "not_found")
                /\ UNCHANGED <<index, rows, primary, backup>>
           ELSE /\ index' = InMemory(new_index, saved.end)
                /\ rows' = IF saved.end = "returned" THEN DeleteChunk(rows, chunk_id) ELSE rows
                /\ primary' = saved.primary
                /\ backup' = saved.backup
                /\ last' = Ended("remove_vector_by_chunk_id", NoDoc, saved.end,
                                 Why(saved.end))

\* reset_store: the DELETE is committed, then the empty index is written to a
\* temporary file that replaces vectors.index, then self.index is swapped
ResetOutcomes == {"ok", "write_fails"}

\* a reset_store without its last step, self.index keeping the old index:
\* ResetFinality fails with it in place of ResetStore
ResetStoreNoSwap(outcome) ==
    /\ Running
    /\ rows' = {}
    /\ IF outcome = "ok"
       THEN /\ primary' = IndexFile(EmptyIndex)
            /\ last' = Ended("reset_store", NoDoc, "returned", "none")
            /\ UNCHANGED index
       ELSE /\ last' = Ended("reset_store", NoDoc, "raised", "save")
            /\ UNCHANGED <<primary, index>>
    /\ UNCHANGED backup

ResetStore(outcome) ==
    /\ Running
    /\ rows' = {}
    /\ IF outcome = "ok"
       THEN /\ primary' = IndexFile(EmptyIndex)
            /\ index' = EmptyIndex
            /\ last' = Ended("reset_store", NoDoc, "returned", "none")
       ELSE /\ last' = Ended("reset_store", NoDoc, "raised", "save")
            /\ UNCHANGED <<primary, index>>
    /\ UNCHANGED backup

\* get_stats
GetStats ==
    [total_vectors |-> Len(index),
     total_documents |-> CountDocuments(rows),
     vectors_in_metadata |-> Cardinality(rows)]

\* the calls whose outcome _save_index decides: those that reach it
ReachesSave(batch) == IsArray(batch) /\ ~IndexAdd(index, VectorData(batch)).raised
OutcomesIf(reaches, outcomes) == IF reaches THEN outcomes ELSE {"ok"}

\* every operation, with _save_index ending in one of the given outcomes
Calls(outcomes) ==
    /\ UNCHANGED <<pipeline, chunking, reading, watching, serving, reprocessing>>
    /\ \/ Construct
       \/ \E batch \in Batches : \E outcome \in OutcomesIf(ReachesSave(batch), outcomes) :
               StoreVectors(batch, outcome)
       \/ \E doc_id \in DocIds :
           \E outcome \in OutcomesIf(SelectLike(rows, doc_id) # {}, outcomes) :
               RemoveDocument(doc_id, outcome)
       \/ \E chunk_id \in ChunkIds :
           \E outcome \in OutcomesIf(SelectChunk(rows, chunk_id) # {}, outcomes) :
               RemoveVectorByChunkId(chunk_id, outcome)
       \/ \E outcome \in ResetOutcomes : ResetStore(outcome)

\* the process is never killed: a write may fail, and the service may be restarted
Next == Calls({"ok", "write_fails"})

Spec == Init /\ [][Next]_vars

\* the process may also die inside _save_index
CrashNext == Calls(SaveOutcomes)

CrashSpec == Init /\ [][CrashNext]_vars


(***************************************************************************)
(* The calls the contract of the engine allows, each running to its end:   *)
(* store_vectors is given chunk_ids that are new to the table and distinct *)
(* within the batch, every embedding has the index's dimension, and no     *)
(* write fails.  The service may be restarted between two calls.           *)
(***************************************************************************)
FreshBatch(batch) ==
    /\ \A i, j \in DOMAIN batch : i # j => batch[i].chunk_id # batch[j].chunk_id
    /\ \A i \in DOMAIN batch : SelectChunk(rows, batch[i].chunk_id) = {}

CompletedNext ==
    /\ UNCHANGED <<pipeline, chunking, reading, watching, serving, reprocessing>>
    /\ \/ Construct
       \/ \E batch \in Batches :
               FreshBatch(batch) /\ ReachesSave(batch) /\ StoreVectors(batch, "ok")
       \/ \E doc_id \in DocIds : RemoveDocument(doc_id, "ok")
       \/ \E chunk_id \in ChunkIds : RemoveVectorByChunkId(chunk_id, "ok")
       \/ ResetStore("ok")

CompletedSpec == Init /\ [][CompletedNext]_vars

----------------------------------------------------------------------------
(* Text: a str is the sequence of its characters *)

NL == "\n"

\* str.strip(): the leading and the trailing whitespace removed
Whitespace == {" ", NL}
RECURSIVE LStrip(_)
LStrip(s) == IF s # <<>> /\ Head(s) \in Whitespace THEN LStrip(Tail(s)) ELSE s
RECURSIVE RStrip(_)
RStrip(s) ==
    IF s # <<>> /\ s[Len(s)] \in Whitespace THEN RStrip(SubSeq(s, 1, Len(s) - 1)) ELSE s
Strip(s) == RStrip(LStrip(s))

\* str.startswith
StartsWith(s, prefix) ==
    Len(s) >= Len(prefix) /\ SubSeq(s, 1, Len(prefix)) = prefix

\* sep.join(parts)
RECURSIVE Join(_, _)
Join(parts, sep) ==
    IF parts = <<>> THEN <<>>
    ELSE IF Len(parts) = 1 THEN parts[1]
    ELSE parts[1] \o sep \o Join(Tail(parts), sep)

\* s.split("\n"): the pieces between the line breaks, one more than the breaks
RECURSIVE Split(_, _)
Split(s, piece) ==
    IF s = <<>> THEN <<piece>>
    ELSE IF Head(s) = NL THEN <<piece>> \o Split(Tail(s), <<>>)
    ELSE Split(Tail(s), Append(piece, Head(s)))

\* s.splitlines(): as split, but "" has no line and a final line break opens none
SplitLines(s) ==
    IF s = <<>> THEN <<>>
    ELSE IF s[Len(s)] = NL THEN Split(SubSeq(s, 1, Len(s) - 1), <<>>)
    ELSE Split(s, <<>>)

\* str(idx) of an int that is not negative
Digits == <<"0", "1", "2", "3", "4", "5", "6", "7", "8", "9">>
RECURSIVE Decimal(_)
Decimal(n) ==
    IF n < 10 THEN <<Digits[n + 1]>> ELSE Decimal(n \div 10) \o <<Digits[(n % 10) + 1]>>

----------------------------------------------------------------------------
(* DocumentProcessor: chunking *)

HeadingPrefix == <<"#", "#", " ">>

\* the for loop of _split_sections from the i-th line on
RECURSIVE SectionsLoop(_, _, _, _)
SectionsLoop(lines, i, sections, current_section) ==
    IF i > Len(lines)
    THEN IF current_section # <<>>
         THEN Append(sections, Join(current_section, <<NL>>))
         ELSE sections
    ELSE LET line == Strip(lines[i])
         IN  IF StartsWith(line, HeadingPrefix)
             THEN SectionsLoop(lines, i + 1,
                               IF current_section # <<>>
                               THEN Append(sections, Join(current_section, <<NL>>))
                               ELSE sections,
                               <<line>>)
             ELSE SectionsLoop(lines, i + 1, sections, Append(current_section, line))

\* _split_sections
SplitSections(content) ==
    LET sections == SectionsLoop(SplitLines(content), 1, <<>>, <<>>)
    IN  IF sections # <<>> THEN sections ELSE <<content>>

\* a format that keeps the last digit of idx only: ChunkIdentifiers fails with it in
\* place of FormatChunkId
FormatChunkIdLastDigit(doc_id, idx) == doc_id \o <<"_">> \o <<Digits[(idx % 10) + 1]>>

\* f"{doc_id}_{idx}"
FormatChunkId(doc_id, idx) == doc_id \o <<"_">> \o Decimal(idx)

\* {"doc_id": ..., "chunk_id": ..., "chunk_index": ..., "total_chunks": ...,
\*  "source_file": ..., **metadata}: a key of metadata replaces the same key before it
ChunkMetadata(doc_id, chunk_id, idx, total, file_path, metadata) ==
    LET own == [doc_id |-> doc_id, chunk_id |-> chunk_id, chunk_index |-> idx,
                total_chunks |-> total, source_file |-> file_path]
    IN  [key \in DOMAIN own \cup DOMAIN metadata |->
            IF key \in DOMAIN metadata THEN metadata[key] ELSE own[key]]

\* _prepare_chunks: one chunk for each section, in the order of the sections
PrepareChunks(content, doc_id, metadata, file_path) ==
    LET sections == SplitSections(content)
    IN  [i \in 1..Len(sections) |->
            [id |-> doc_id,
             chunk_id |-> FormatChunkId(doc_id, i - 1),
             content |-> sections[i],
             metadata |-> ChunkMetadata(doc_id, FormatChunkId(doc_id, i - 1), i - 1,
                                        Len(sections), file_path, metadata)]]

(* The contents _prepare_chunks is called with *)

\* no body has more lines than this, but for the bodies of headings only
MaxLines == 3
\* the longest body of headings only has this many
MaxHeadings == 11

\* a blank line, text, indented text, a heading, a heading without a title, an
\* indented heading, and two lines that start no second-level section
Lines ==
    {<<>>, <<"x">>, <<" ", "x">>, <<"#", "#", " ", "x">>, <<"#", "#", " ">>,
     <<" ", "#", "#", " ", "x">>, <<"#", "#", "x">>, <<"#", "#", "#", " ", "x">>}

Headings(n) == [i \in 1..n |-> <<"#", "#", " ", "x">>]

Contents ==
    {Join(lines, <<NL>>) : lines \in UNION {[1..n -> Lines] : n \in 0..MaxLines}}
    \cup {Join(Headings(n), <<NL>>) : n \in 1..MaxHeadings}

\* uuid4: as many doc_ids as the model needs, all of one length
Uuids == {<<"u", "1">>, <<"u", "2">>, <<"u", "3">>}
UuidOrder(u) == CHOOSE n \in 1..3 : u = <<"u", Digits[n + 1]>>

\* document.dict(exclude_none=True) of the documents the files declare
DocumentMetadata ==
    {[type |-> "project", title |-> "t", sub_type |-> "product"],
     [type |-> "other", title |-> "t", sub_type |-> "cover-letter"],
     [type |-> "education", title |-> "t"]}

ChunkInit ==
    /\ index = EmptyIndex
    /\ rows = {}
    /\ primary = IndexFile(EmptyIndex)
    /\ backup = Absent
    /\ last = Ended("construct", NoDoc, "returned", "created")
    /\ PipelineInit
    /\ body \in Contents
    /\ chunks = <<>>
    /\ ReadingIdle
    /\ WatchingIdle
    /\ ServingIdle
    /\ reprocessing = NoRun

\* a call of _prepare_chunks on the content
PrepareChunksCall(doc_id, metadata, file_path) ==
    /\ chunks' = PrepareChunks(body, doc_id, metadata, file_path)
    /\ UNCHANGED <<index, rows, primary, backup, last, pipeline, body, reading, watching, serving, reprocessing>>

ChunkNext ==
    \E doc_id \in Uuids, metadata \in DocumentMetadata, file_path \in Paths :
        PrepareChunksCall(doc_id, metadata, file_path)

ChunkSpec == ChunkInit /\ [][ChunkNext]_vars

----------------------------------------------------------------------------
(* DocumentStore: reading the metadata table *)

\* the table DocumentStore reads never holds more rows than this
MaxStored == 3
\* no stored body has more lines than this
MaxStoredLines == 3

\* the row store_vectors inserts for a chunk: (doc_id, chunk_id, metadata, content)
StoredRow(chunk) ==
    [doc_id |-> chunk.id, chunk_id |-> chunk.chunk_id, metadata |-> chunk.metadata,
     content |-> chunk.content]

\* INSERT OR REPLACE of a row whose vector_id is above every vector_id of the table:
\* the row of the same chunk_id goes, the new row is the last by vector_id
InsertLast(tb, r) == Append(SelectSeq(tb, LAMBDA x : x.chunk_id # r.chunk_id), r)

\* SELECT ... WHERE doc_id = ?
SelectDoc(tb, doc_id) == SelectSeq(tb, LAMBDA r : r.doc_id = doc_id)

\* the rows as they lie in the table: a query without its ORDER BY, with which
\* ReconstructionOrdering fails in place of OrderByChunkIndex
OrderByNothing(rs) == rs

\* ORDER BY json_extract(metadata, '$.chunk_index'): the integers ascending (rows
\* of the same chunk_index in the order of the table)
RECURSIVE OrderByChunkIndex(_)
OrderByChunkIndex(rs) ==
    IF rs = <<>> THEN <<>>
    ELSE LET least == CHOOSE i \in DOMAIN rs :
                        /\ \A j \in DOMAIN rs :
                                rs[i].metadata.chunk_index <= rs[j].metadata.chunk_index
                        /\ \A j \in 1..(i - 1) :
                                rs[j].metadata.chunk_index # rs[i].metadata.chunk_index
         IN  <<rs[least]>> \o
             OrderByChunkIndex(SubSeq(rs, 1, least - 1) \o SubSeq(rs, least + 1, Len(rs)))

\* metadata.pop(field, None) for each of the fields
Pop(metadata, fields) == [key \in DOMAIN metadata \ fields |-> metadata[key]]

\* reconstruct_document without its `if not rows: raise`: no row gives an empty
\* document
ReconstructDocumentOfNothing(doc_id) ==
    LET selected == OrderByChunkIndex(SelectDoc(table, doc_id))
        contents == [i \in DOMAIN selected |-> selected[i].content]
    IN  /\ document' =
            Read("reconstruct_document", "returned", "none",
                 IF selected = <<>> THEN <<>>
                 ELSE Pop(selected[1].metadata,
                          {"chunk_id", "doc_id", "chunk_index", "total_chunks"}),
                 Join(contents, <<NL>>), <<>>)
        /\ UNCHANGED <<index, rows, primary, backup, last, pipeline, chunking, table,
                       watching, serving, reprocessing>>

\* DocumentStore.reconstruct_document(doc_id)
ReconstructDocument(doc_id) ==
    LET selected == OrderByChunkIndex(SelectDoc(table, doc_id))
        contents == [i \in DOMAIN selected |-> selected[i].content]
    IN  /\ document' =
            IF selected = <<>>
            THEN Read("reconstruct_document", "raised", "no_document", <<>>, <<>>, <<>>)
            ELSE Read("reconstruct_document", "returned", "none",
                      Pop(selected[1].metadata,
                          {"chunk_id", "doc_id", "chunk_index", "total_chunks"}),
                      Join(contents, <<NL>>), <<>>)
        /\ UNCHANGED <<index, rows, primary, backup, last, pipeline, chunking, table,
                       watching, serving, reprocessing>>

(* schemas.py *)
DocumentType == {"experience", "education", "project", "other"}
ProjectSubType == {"product", "process", "infrastructure", "self_referential"}
OtherSubType ==
    {"cover-letter", "publication-speaking", "recommendation", "thought-leadership"}

\* json_extract(metadata, '$.key') = value: NULL, equal to nothing, without the key
Extracts(metadata, key, value) == key \in DOMAIN metadata /\ metadata[key] = value

\* the chunks search_by_metadata returns for the rows of its query.  A subtype
\* narrows the query only with the type it belongs to.
SearchByMetadataRows(tb, doc_type, project_subtype, other_subtype) ==
    LET by_subtype ==
            IF doc_type = "project" /\ project_subtype # None THEN project_subtype
            ELSE IF doc_type = "other" /\ other_subtype # None THEN other_subtype
            ELSE None
        selected ==
            SelectSeq(tb, LAMBDA r :
                /\ Extracts(r.metadata, "type", doc_type)
                /\ by_subtype # None => Extracts(r.metadata, "sub_type", by_subtype))
    IN  [i \in DOMAIN selected |->
            [doc_id |-> selected[i].metadata.doc_id, chunk_id |-> selected[i].chunk_id,
             total_chunks |-> selected[i].metadata.total_chunks,
             content |-> selected[i].content, metadata |-> selected[i].metadata]]

\* what search_by_metadata gives its caller
SearchByMetadataResult(op, tb, doc_type, project_subtype, other_subtype) ==
    IF doc_type \notin DocumentType
    THEN Read(op, "raised", "unsupported_type", <<>>, <<>>, <<>>)
    ELSE Read(op, "returned", "none", <<>>, <<>>,
              SearchByMetadataRows(tb, doc_type, project_subtype, other_subtype))

\* DocumentStore.search_by_metadata(doc_type, project_subtype, other_subtype)
SearchByMetadata(doc_type, project_subtype, other_subtype) ==
    /\ document' = SearchByMetadataResult("search_by_metadata", table, doc_type,
                                          project_subtype, other_subtype)
    /\ UNCHANGED <<index, rows, primary, backup, last, pipeline, chunking, table,
                   watching, serving, reprocessing>>

\* a route that hands every query on: SubtypeRejectedByRoute fails with it in place
\* of InvalidSubtype
InvalidSubtypeNever(doc_type, project_subtype, other_subtype) == FALSE

\* the validation of get_documents_by_type: a subtype of the other type is given
InvalidSubtype(doc_type, project_subtype, other_subtype) ==
    \/ doc_type = "project" /\ other_subtype # None
    \/ doc_type = "other" /\ project_subtype # None

\* GET /documents/type/{doc_type}: get_documents_by_type
GetDocumentsByType(doc_type, project_subtype, other_subtype) ==
    /\ document' =
        IF InvalidSubtype(doc_type, project_subtype, other_subtype)
        THEN Read("get_documents_by_type", "raised", "400", <<>>, <<>>, <<>>)
        ELSE SearchByMetadataResult("get_documents_by_type", table, doc_type,
                                    project_subtype, other_subtype)
    /\ UNCHANGED <<index, rows, primary, backup, last, pipeline, chunking, table,
                   watching, serving, reprocessing>>

(* The documents stored *)

\* text, and two headings
StoredLines == {<<"x">>, <<"#", "#", " ", "x">>, <<"#", "#", " ", "y">>}

StoredContents ==
    {Join(lines, <<NL>>) : lines \in UNION {[1..n -> StoredLines] : n \in 1..MaxStoredLines}}

\* the front-matter of the document of each doc_id
FrontMatter(doc_id) ==
    IF doc_id = <<"u", "1">> THEN [type |-> "project", title |-> "t", sub_type |-> "product"]
    ELSE IF doc_id = <<"u", "2">>
        THEN [type |-> "other", title |-> "t", sub_type |-> "cover-letter"]
    ELSE [type |-> "education", title |-> "t"]

\* the documents that are stored: the third doc_id has no row
StoredDocs == {<<"u", "1">>, <<"u", "2">>}

\* the chunks of the document of a doc_id, all of the same body
StoredChunks(doc_id) == PrepareChunks(body, doc_id, FrontMatter(doc_id), "p.md")

\* store_vectors, as far as the table goes, of the i-th chunk of a document:
\* the chunks of a document arrive in any order
StoreChunk(doc_id, i) ==
    /\ i \in DOMAIN StoredChunks(doc_id)
    /\ \A j \in DOMAIN table : table[j].chunk_id # StoredChunks(doc_id)[i].chunk_id
    /\ Len(table) < MaxStored
    /\ table' = InsertLast(table, StoredRow(StoredChunks(doc_id)[i]))
    /\ UNCHANGED <<index, rows, primary, backup, last, pipeline, chunking, document,
                   watching, serving, reprocessing>>

\* the arguments of search_by_metadata and of the route
QueryTypes == {"project", "other", "education"}
ProjectSubtypes == {None, "product", "process"}
OtherSubtypes == {None, "cover-letter"}

ReadInit ==
    /\ index = EmptyIndex
    /\ rows = {}
    /\ primary = IndexFile(EmptyIndex)
    /\ backup = Absent
    /\ last = Ended("construct", NoDoc, "returned", "created")
    /\ PipelineInit
    /\ body \in StoredContents
    /\ chunks = <<>>
    /\ ReadingIdle
    /\ WatchingIdle
    /\ ServingIdle
    /\ reprocessing = NoRun

ReadNext ==
    \/ \E doc_id \in StoredDocs, i \in 1..MaxStoredLines : StoreChunk(doc_id, i)
    \/ \E doc_id \in Uuids : ReconstructDocument(doc_id)
    \/ \E doc_type \in QueryTypes \cup {None}, project_subtype \in ProjectSubtypes,
          other_subtype \in OtherSubtypes :
            SearchByMetadata(doc_type, project_subtype, other_subtype)
    \/ \E doc_type \in QueryTypes, project_subtype \in ProjectSubtypes,
          other_subtype \in OtherSubtypes :
            GetDocumentsByType(doc_type, project_subtype, other_subtype)

ReadSpec == ReadInit /\ [][ReadNext]_vars

----------------------------------------------------------------------------
(* DocumentProcessor and DocumentHandler: the pipeline *)

\* the index of the pipeline's store never holds more vectors than this
MaxIndexed == 4

\* config.py has 100: scaled to the documents of the model, the longest of which
\* takes two batches
BATCH_SIZE == 2

\* what VectorManager holds and what is on disk, as one value
Store == [index |-> index, rows |-> rows, primary |-> primary, backup |-> backup]

\* what a call of VectorManager leaves of a store, and how it ended
After(ix, rs, p, b, end, why) ==
    [index |-> ix, rows |-> rs, primary |-> p, backup |-> b, end |-> end, why |-> why]

\* VectorManager.remove_document on the store s
RemoveDocumentCall(s, doc_id, outcome) ==
    LET vector_entries == SelectLike(s.rows, doc_id)
        vector_ids_set == {r.vector_id : r \in vector_entries}
        new_index == Rebuild(s.index, vector_ids_set, 0)
        saved == SaveIndex(new_index, s.primary, s.backup, outcome)
    IN  IF vector_entries = {}
        THEN After(s.index, s.rows, s.primary, s.backup, "returned", "not_found")
        ELSE After(InMemory(new_index, saved.end),
                   IF saved.end = "returned" THEN DeleteLike(s.rows, doc_id) ELSE s.rows,
                   saved.primary, saved.backup, saved.end, Why(saved.end))

\* VectorManager.store_vectors on the store s
StoreVectorsCall(s, batch, outcome) ==
    LET added == IF IsArray(batch) THEN IndexAdd(s.index, VectorData(batch))
                 ELSE [raised |-> TRUE, index |-> s.index]
        saved == SaveIndex(added.index, s.primary, s.backup, outcome)
    IN  IF added.raised
        THEN After(s.index, s.rows, s.primary, s.backup, "raised", "dimension")
        ELSE After(InMemory(added.index, saved.end),
                   InsertRows(s.rows, batch, Len(s.index), 1),
                   saved.primary, saved.backup, saved.end, Why(saved.end))

\* embedding_client.embed: the embedding of a text, of the index's dimension
Embed(text) == [dim |-> VECTOR_DIMENSION, dir |-> Len(text) % 3, len |-> 1]

\* the vectors _process_chunks builds of a batch of chunks
Vectors(batch) ==
    [i \in DOMAIN batch |->
        [id |-> batch[i].id, chunk_id |-> batch[i].chunk_id,
         type |-> batch[i].metadata.type, values |-> Embed(batch[i].content)]]

\* what goes wrong in _process_chunks: nothing, or the embedding or the index write
\* of one batch
NoFault == [batch |-> 0, at |-> "nothing"]
Faults(batches, kinds) == {NoFault} \cup [batch : 1..batches, at : kinds]

Batch(all, i) == SubSeq(all, i, Min(i + BATCH_SIZE - 1, Len(all)))
BatchCount(all) == (Len(all) + BATCH_SIZE - 1) \div BATCH_SIZE

\* the for loop of _process_chunks from the batch that starts at chunk i (1-based)
RECURSIVE ProcessChunks(_, _, _, _)
ProcessChunks(s, all, i, fault) ==
    IF i > Len(all) THEN After(s.index, s.rows, s.primary, s.backup, "returned", "none")
    ELSE LET number == ((i - 1) \div BATCH_SIZE) + 1
             failing == fault.batch = number
             stored == StoreVectorsCall(s, Vectors(Batch(all, i)),
                                        IF failing /\ fault.at = "write"
                                        THEN "write_fails" ELSE "ok")
         IN  IF failing /\ fault.at = "embed"
             THEN After(s.index, s.rows, s.primary, s.backup, "raised", "embed")
             ELSE IF stored.end # "returned" THEN stored
             ELSE ProcessChunks(stored, all, i + BATCH_SIZE, fault)

(* The files *)

\* the documents written: of one section and of three
Documents ==
    {[kind |-> "document",
      metadata |-> [type |-> "project", title |-> "t", sub_type |-> "product"],
      body |-> content] :
        content \in {<<"x">>, Join(Headings(3), <<NL>>)}}

IsDocument(source) == source.kind = "document"

\* the chunk_ids of the rows of a document
DocChunkIds(rs, doc_id) == {r.chunk_id : r \in {x \in rs : x.doc_id = doc_id}}

\* what a process_document that returned has left for the path
Left(doc_id, rs, source) ==
    [doc_id |-> doc_id, chunk_ids |-> DocChunkIds(rs, doc_id),
     total |-> Cardinality({r \in rs : r.doc_id = doc_id}), source |-> source,
     deleted |-> FALSE]

\* a file is created, or modified
WriteSource(path, source) ==
    /\ source # sources[path]
    /\ sources' = [sources EXCEPT ![path] = source]
    /\ UNCHANGED <<index, rows, primary, backup, last, document_map, issued, deleted,
                   processed, chunking, reading, watching, serving, reprocessing>>

\* a file is deleted: the watcher has a deleted event to deliver
DeleteSource(path) ==
    /\ sources[path] # NoFile
    /\ sources' = [sources EXCEPT ![path] = NoFile]
    /\ deleted' = deleted \cup {path}
    /\ UNCHANGED <<index, rows, primary, backup, last, document_map, issued, processed,
                   chunking, reading, watching, serving, reprocessing>>

\* uuid4(): a doc_id not handed out before; which one makes no difference, so
\* the first of them (NoDoc when the model has none left, which ends the run)
Uuid4 ==
    IF issued = Uuids THEN NoDoc
    ELSE CHOOSE u \in Uuids \ issued :
            \A v \in Uuids \ issued : UuidOrder(u) <= UuidOrder(v)

\* self.document_map.get(file_path, str(uuid.uuid4()))
DocumentMapGet(path) ==
    IF document_map[path] # NoDoc THEN document_map[path] ELSE Uuid4

\* DocumentProcessor.process_document(path)
ProcessDocument(path, doc_id, remove_outcome, fault) ==
    LET source == sources[path]
        seen == document_map[path] # NoDoc
        removed == IF seen THEN RemoveDocumentCall(Store, doc_id, remove_outcome)
                   ELSE After(index, rows, primary, backup, "returned", "not_seen")
        all == PrepareChunks(source.body, doc_id, source.metadata, path)
        stored == ProcessChunks(removed, all, 1, fault)
    IN  IF ~IsDocument(source)
        THEN \* read_text raises
             /\ last' = Ended("process_document", NoDoc, "raised", "read")
             /\ UNCHANGED <<index, rows, primary, backup, pipeline, chunking, reading>>
        ELSE /\ doc_id = DocumentMapGet(path)
             /\ fault.batch <= BatchCount(all)
             /\ Len(stored.index) <= MaxIndexed
             /\ index' = stored.index
             /\ rows' = stored.rows
             /\ primary' = stored.primary
             /\ backup' = stored.backup
             /\ document_map' = [document_map EXCEPT ![path] = doc_id]
             /\ issued' = issued \cup {doc_id}
             /\ processed' = IF stored.end = "returned"
                             THEN [processed EXCEPT
                                        ![path] = Left(doc_id, stored.rows, source)]
                             ELSE processed
             \* a remove_document that raised is logged and nothing more
             /\ last' = Ended("process_document", doc_id, stored.end,
                              IF stored.end = "returned" /\ removed.end = "raised"
                              THEN "removal_failed" ELSE stored.why)
             /\ UNCHANGED <<sources, deleted, chunking, reading>>

\* DocumentHandler.on_deleted(event): DocumentProcessor has no remove_document and
\* no reindex_vectors, the AttributeError is caught and logged
OnDeleted(path) ==
    /\ path \in deleted
    /\ deleted' = deleted \ {path}
    /\ processed' = IF processed[path] = NoEntry THEN processed
                    ELSE [processed EXCEPT ![path].deleted = TRUE]
    /\ last' = Ended("on_deleted", document_map[path], "returned", "attribute_error")
    /\ UNCHANGED <<index, rows, primary, backup, document_map, sources, issued,
                   chunking, reading, watching, serving, reprocessing>>

\* the calls and events of one run of the service: document_map lives as long as
\* the process
PipelineCalls(outcomes, kinds) ==
    \/ \E path \in Paths, source \in Documents : WriteSource(path, source)
    \/ \E path \in Paths : DeleteSource(path)
    \/ \E path \in Paths, doc_id \in Uuids :
        \E remove_outcome \in OutcomesIf(DocChunkIds(rows, document_map[path]) # {},
                                         outcomes) :
            \E fault \in Faults(2, kinds) :
                ProcessDocument(path, doc_id, remove_outcome, fault)
                    /\ UNCHANGED <<watching, serving, reprocessing>>
    \/ \E path \in Paths : OnDeleted(path)

\* the index write of a removal may fail; embedding and storing do not
PipelineNext == PipelineCalls({"ok", "write_fails"}, {})

PipelineSpec == Init /\ [][PipelineNext]_vars

\* one file, written and processed again and again, while the embedding of a
\* batch or the index write of its store_vectors may fail
FaultKinds == {"embed", "write"}

FaultNext ==
    \/ \E source \in Documents : WriteSource("p.md", source)
    \/ \E doc_id \in Uuids, remove_outcome \in {"ok", "write_fails"} :
        \E fault \in Faults(2, FaultKinds) :
            ProcessDocument("p.md", doc_id, remove_outcome, fault)
                /\ UNCHANGED <<watching, serving, reprocessing>>

FaultSpec == Init /\ [][FaultNext]_vars

(* The service started with --dry-run *)

\* initialize_services(dry_run=True): no VectorManager is made, vector_manager is
\* None; nothing is loaded and no file is created
DryRunInit ==
    /\ index = EmptyIndex
    /\ rows = {}
    /\ primary = Absent
    /\ backup = Absent
    /\ last = Ended("initialize_services", NoDoc, "returned", "dry_run")
    /\ PipelineInit
    /\ ChunkingIdle
    /\ ReadingIdle
    /\ WatchingIdle
    /\ ServingIdle
    /\ reprocessing = NoRun

\* _process_chunks with vector_manager None: the first batch is embedded, then
\* self.vector_manager.store_vectors raises AttributeError, which is logged and raised
ProcessChunksDryRun(all) ==
    IF Len(all) = 0 THEN "none" ELSE "attribute_error"

\* DocumentProcessor.process_document(path) with vector_manager None: the
\* AttributeError of self.vector_manager.remove_document is caught and logged,
\* document_map is updated, then _process_chunks runs
ProcessDocumentDryRun(path, doc_id) ==
    LET source == sources[path]
        all == PrepareChunks(source.body, doc_id, source.metadata, path)
        why == ProcessChunksDryRun(all)
    IN  IF ~IsDocument(source)
        THEN /\ last' = Ended("process_document", NoDoc, "raised", "read")
             /\ UNCHANGED <<index, rows, primary, backup, pipeline, chunking, reading,
                            watching, serving, reprocessing>>
        ELSE /\ doc_id = DocumentMapGet(path)
             /\ document_map' = [document_map EXCEPT ![path] = doc_id]
             /\ issued' = issued \cup {doc_id}
             /\ processed' = IF why = "none"
                             THEN [processed EXCEPT ![path] = Left(doc_id, rows, source)]
                             ELSE processed
             /\ last' = Ended("process_document", doc_id,
                              IF why = "none" THEN "returned" ELSE "raised", why)
             /\ UNCHANGED <<index, rows, primary, backup, sources, deleted, chunking,
                            reading, watching, serving, reprocessing>>

DryRunNext ==
    \/ \E path \in Paths, source \in Documents : WriteSource(path, source)
    \/ \E path \in Paths : DeleteSource(path)
    \/ \E path \in Paths, doc_id \in Uuids : ProcessDocumentDryRun(path, doc_id)
    \/ \E path \in Paths : OnDeleted(path)

DryRunSpec == DryRunInit /\ [][DryRunNext]_vars

(* DocumentHandler: the debounce of created and modified events *)

\* the events handled for one path, and the last value time.time() returns
MaxEvents == 2
MaxTime == 2

\* Timer(DEBOUNCE_SECONDS, self.process_change, args=[path, current_time]): the
\* thread of the path's event-th event
Task(path, change_time, event) ==
    [path |-> path, change_time |-> change_time, event |-> event]

\* a timer of the path has run: fewer are waiting than were started
Fired(path) == Cardinality({t \in timers : t.path = path}) < events[path]

\* DocumentHandler.handle_change(event), of on_created and on_modified, in the
\* observer's thread; time.time() gives the value it gave last or a later one
HandleChange(path, current_time) ==
    /\ events[path] < MaxEvents
    /\ current_time \in clock..Min(clock + 1, MaxTime)
    /\ clock' = current_time
    /\ pending_changes' = [pending_changes EXCEPT ![path] = current_time]
    /\ timers' = timers \cup {Task(path, current_time, events[path] + 1)}
    /\ events' = [events EXCEPT ![path] = @ + 1]
    /\ newest' = [newest EXCEPT ![path] = current_time]
    /\ late' = [late EXCEPT ![path] = @ \/ Fired(path)]
    /\ UNCHANGED <<index, rows, primary, backup, last, pipeline, chunking, reading,
                   running, calls, served, serving, reprocessing>>

\* process_change without its test: every task is taken for the latest
LatestAlways(task) == TRUE

\* the test of process_change: is this still the latest change
Latest(task) == pending_changes[task.path] = task.change_time

\* a handler without processing_lock: a thread never waits
LockFreeAlways == TRUE

\* `with self.processing_lock`: the thread goes on when no other is inside
LockFree == running = {}

\* process_change(path, change_time) up to the end of process_document: the timer's
\* thread takes processing_lock, tests and calls process_document, whose exceptions
\* are logged; a task that fails the test leaves the with block at once
ProcessChange(task, doc_id) ==
    /\ task \in timers
    /\ LockFree
    /\ timers' = timers \ {task}
    /\ IF Latest(task)
       THEN /\ ProcessDocument(task.path, doc_id, "ok", NoFault)
            /\ calls' = [calls EXCEPT ![task.path] = @ + 1]
            /\ served' = [served EXCEPT ![task.path] = events[task.path]]
            /\ running' = running \cup {task}
       ELSE UNCHANGED <<index, rows, primary, backup, last, pipeline, chunking, reading,
                        calls, served, running>>
    /\ UNCHANGED <<pending_changes, clock, events, newest, late, serving, reprocessing>>

\* the finally of process_change: pending_changes.pop(path, None), and the lock
\* is released
ProcessChangeFinally(task) ==
    /\ task \in running
    /\ pending_changes' = [pending_changes EXCEPT ![task.path] = NoTime]
    /\ running' = running \ {task}
    /\ UNCHANGED <<index, rows, primary, backup, last, pipeline, chunking, reading,
                   timers, clock, events, calls, newest, late, served, serving, reprocessing>>

\* the document written to the watched paths: the one of a single section
Watched == CHOOSE source \in Documents : source.body = <<"x">>

\* the tasks the model can start
Tasks == [path : Paths, change_time : 0..MaxTime, event : 1..MaxEvents]

\* the watcher at work: files are written, their events handled, the timers run
DebounceNext ==
    \/ \E path \in Paths : WriteSource(path, Watched)
    \/ \E path \in Paths, current_time \in 0..MaxTime : HandleChange(path, current_time)
    \/ \E task \in Tasks, doc_id \in Uuids : ProcessChange(task, doc_id)
    \/ \E task \in Tasks : ProcessChangeFinally(task)

DebounceSpec == Init /\ [][DebounceNext]_vars

\* the steps of the timers' threads
TimersFire == \E task \in Tasks, doc_id \in Uuids : ProcessChange(task, doc_id)
LockReleased == \E task \in Tasks : ProcessChangeFinally(task)

\* the watcher with one file, for what must happen in the end
OnePathNext ==
    \/ WriteSource("p.md", Watched)
    \/ \E current_time \in 0..MaxTime : HandleChange("p.md", current_time)
    \/ TimersFire
    \/ LockReleased

\* a Timer's thread enters the with block of process_change: the step that takes a
\* task from the waiting timers while the lock is free
TimerRuns == \E task \in timers : LockFree /\ timers' = timers \ {task}

\* every Timer started runs its process_change once the lock is free, and a
\* process_change inside the with block leaves it: process_document returns or raises
DebounceLiveSpec ==
    Init /\ [][OnePathNext]_vars /\ WF_timers(TimerRuns) /\ WF_vars(LockReleased)

----------------------------------------------------------------------------
(* search_similar beside the mutations: other threads, another process *)

\* the positions index.search returned: all but the -1 of an unfilled place
Positions(hits) == {hits[i].idx : i \in {j \in DOMAIN hits : hits[j].idx # -1}}

\* the chunk whose vector the index holds at each hit
ChunksAt(ix, hits) ==
    [i \in DOMAIN hits |-> IF hits[i].idx = -1 THEN <<>> ELSE ix[hits[i].idx + 1].src]

\* every position index.search returned has the row of the chunk whose vector is there
Sound(ix, rs, hits) ==
    \A i \in DOMAIN hits :
        hits[i].idx # -1 =>
            \E r \in SelectVector(rs, hits[i].idx) : r.chunk_id = ix[hits[i].idx + 1].src

\* what search_similar holds once index.search has returned (line 221)
Searched(ix, rs, hits, k, filter_types, overlap) ==
    [stage |-> "searched", hits |-> hits, at |-> ChunksAt(ix, hits), k |-> k,
     filter_types |-> filter_types, sound |-> Sound(ix, rs, hits), overlap |-> overlap]

\* a loop that takes every position to have a row: unpacking the None that fetchone
\* gives for a missing row raises
RowsLoopUnpacking(rs, s) ==
    LET res == SimilarLoop(rs, s.hits, 1, s.k, s.filter_types, <<>>)
        missing == {pos \in Positions(s.hits) : SelectVector(rs, pos) = {}}
    IN  Answer(IF missing = {} THEN "returned" ELSE "raised",
               IF missing = {} THEN SubSeq(res, 1, Min(s.k, Len(res))) ELSE <<>>,
               missing, {}, s.sound, s.overlap)

\* the rest of search_similar: the with block that looks the positions up in the
\* table (`if meta_row:` passes over a position without a row), and results[:k]
RowsLoop(rs, s) ==
    LET res == SimilarLoop(rs, s.hits, 1, s.k, s.filter_types, <<>>)
    IN  Answer("returned", SubSeq(res, 1, Min(s.k, Len(res))),
               {pos \in Positions(s.hits) : SelectVector(rs, pos) = {}},
               {s.hits[i].idx : i \in {j \in DOMAIN s.hits :
                    /\ s.hits[j].idx # -1
                    /\ SelectVector(rs, s.hits[j].idx) # {}
                    /\ \A r \in SelectVector(rs, s.hits[j].idx) : r.chunk_id # s.at[j]}},
               s.sound, s.overlap)

\* search_similar up to the return of index.search, on the index of this process;
\* the call has no answer yet
SearchIndex(q, k, filter_types) ==
    /\ search.stage = "idle"
    /\ \E hits \in IndexSearch(index, q, IF filter_types # {} THEN k * 2 ELSE k) :
        search' = Searched(index, rows, hits, k, filter_types,
                           removal.stage = "swapped")
    /\ answer' = Answer("none", <<>>, {}, {}, TRUE, FALSE)
    /\ UNCHANGED <<index, rows, primary, backup, last, pipeline, chunking, reading,
                   watching, reprocessing, api_index, api_up, removal>>

\* search_similar from there to its return
SearchRows ==
    /\ search.stage = "searched"
    /\ answer' = RowsLoop(rows, search)
    /\ search' = NoSearch
    /\ UNCHANGED <<index, rows, primary, backup, last, pipeline, chunking, reading,
                   watching, reprocessing, api_index, api_up, removal>>

\* a step of remove_document falls between the two halves of a search_similar
Overlapped == [search EXCEPT !.overlap = @ \/ search.stage = "searched"]

\* remove_document up to `self.index = new_index` (line 228): the rows are selected
\* and the index in memory is replaced; nothing is deleted yet
RemoveSwap(doc_id) ==
    /\ Running
    /\ removal.stage = "idle"
    /\ LET vector_entries == SelectLike(rows, doc_id)
           vector_ids_set == {r.vector_id : r \in vector_entries}
       IN  IF vector_entries = {}
           THEN /\ last' = Ended("remove_document", doc_id, "returned", "not_found")
                /\ UNCHANGED <<index, removal, search>>
           ELSE /\ index' = Rebuild(index, vector_ids_set, 0)
                /\ removal' = [stage |-> "swapped", doc_id |-> doc_id]
                /\ search' = Overlapped
                /\ last' = last
    /\ UNCHANGED <<rows, primary, backup, pipeline, chunking, reading, watching, reprocessing,
                   api_index, api_up, answer>>

\* remove_document from there to its return: the DELETE, _save_index, and the
\* commit as the with block is left, which is when other connections see the DELETE
RemoveCommit ==
    /\ removal.stage = "swapped"
    /\ LET saved == SaveIndex(index, primary, backup, "ok")
       IN  /\ rows' = DeleteLike(rows, removal.doc_id)
           /\ primary' = saved.primary
           /\ backup' = saved.backup
           /\ last' = Ended("remove_document", removal.doc_id, "returned", "none")
    /\ removal' = NoRemoval
    /\ search' = Overlapped
    /\ UNCHANGED <<index, pipeline, chunking, reading, watching, reprocessing, api_index, api_up, answer>>

\* one process: the thread that stores and removes, and a thread that searches
RaceNext ==
    \/ \E batch \in Batches :
        /\ removal.stage = "idle"
        /\ FreshBatch(batch) /\ ReachesSave(batch) /\ StoreVectors(batch, "ok")
        /\ UNCHANGED <<pipeline, chunking, reading, watching, serving, reprocessing>>
    \/ \E doc_id \in DocIds : RemoveSwap(doc_id)
    \/ RemoveCommit
    \/ \E q \in UnitQueries, k \in Ks : SearchIndex(q, k, {})
    \/ SearchRows

RaceSpec == Init /\ [][RaceNext]_vars

\* lifespan of the API server: VectorManager() reads the index file into memory
ApiStart ==
    LET made == LoadOrCreateIndex(primary, backup)
    IN  /\ api_index' = made.index
        /\ api_up' = TRUE
        /\ primary' = made.primary
        /\ backup' = made.backup
        /\ UNCHANGED <<index, rows, last, pipeline, chunking, reading, watching, reprocessing,
                       removal, search, answer>>

\* search_similar in the API server: its own index, the table of the shared database
ApiSearch(q, k, filter_types) ==
    /\ api_up
    /\ \E hits \in IndexSearch(api_index, q, IF filter_types # {} THEN k * 2 ELSE k) :
        answer' = RowsLoop(rows, Searched(api_index, rows, hits, k, filter_types, FALSE))
    /\ UNCHANGED <<index, rows, primary, backup, last, pipeline, chunking, reading,
                   watching, reprocessing, api_index, api_up, removal, search>>

\* start_server: the document processor stores and removes with its VectorManager,
\* the API server, started after it (and started again at will), searches with its own
ServerNext ==
    \/ \E batch \in Batches :
        /\ FreshBatch(batch) /\ ReachesSave(batch) /\ StoreVectors(batch, "ok")
        /\ UNCHANGED <<pipeline, chunking, reading, watching, serving, reprocessing>>
    \/ \E doc_id \in DocIds :
        /\ RemoveDocument(doc_id, "ok")
        /\ UNCHANGED <<pipeline, chunking, reading, watching, serving, reprocessing>>
    \/ ApiStart
    \/ \E q \in UnitQueries, k \in Ks : ApiSearch(q, k, {})

ServerSpec == Init /\ [][ServerNext]_vars

(***************************************************************************)
(* process_all_documents(force_reprocess=True), the initial processing of a *)
(* service started with --reprocess-all.  The loop over the files is one    *)
(* step per file; a file may vanish between rglob and its turn.             *)
(***************************************************************************)

\* document_map.clear()
KeptMap == document_map
ClearedMap == [path \in Paths |-> NoDoc]

\* DOCUMENTS_DIR.rglob("*.md"), less the ignored paths
MarkdownFiles == {path \in Paths : sources[path] # NoFile}

\* lines 77-101: the mapping is cleared, reset_store is called (a raise is logged
\* and raised again, and main returns 1), the files are listed.  After clear() the
\* loop over the obsolete paths of document_map (104-115) has nothing to visit.
ReprocessAll(outcome) ==
    /\ reprocessing.stage = "idle"
    /\ document_map' = ClearedMap
    /\ ResetStore(outcome)
    /\ reprocessing' =
        IF outcome = "ok"
        THEN [NoRun EXCEPT !.stage = "files", !.found = MarkdownFiles,
                           !.todo = MarkdownFiles, !.before = issued]
        ELSE [NoRun EXCEPT !.stage = "aborted"]
    /\ UNCHANGED <<sources, issued, deleted, processed, chunking, reading, watching,
                   serving>>

\* lines 118-127: one turn of the loop; an exception of process_document is counted
ReprocessFile(path, doc_id, fault) ==
    /\ reprocessing.stage = "files"
    /\ path \in reprocessing.todo
    /\ ProcessDocument(path, doc_id, "ok", fault)
    /\ reprocessing' =
        [reprocessing EXCEPT
            !.todo = @ \ {path},
            !.processed = IF last'.end = "returned" THEN @ + 1 ELSE @,
            !.errors = IF last'.end = "returned" THEN @ ELSE @ + 1,
            !.returned = IF last'.end = "returned" THEN @ \cup {path} ELSE @,
            !.log = Append(@, last'.end)]
    /\ UNCHANGED <<watching, serving>>

\* lines 129-133: the loop is over, the counts are logged
ReprocessDone ==
    /\ reprocessing.stage = "files"
    /\ reprocessing.todo = {}
    /\ reprocessing' = [reprocessing EXCEPT !.stage = "done"]
    /\ UNCHANGED <<index, rows, primary, backup, last, pipeline, chunking, reading,
                   watching, serving>>

\* an earlier run of the service wrote and processed files; then the service is
\* started with --reprocess-all
ReprocessNext ==
    \/ \E path \in Paths, source \in Documents :
        reprocessing.stage = "idle" /\ WriteSource(path, source)
    \/ \E path \in Paths : DeleteSource(path)
    \/ \E path \in Paths, doc_id \in Uuids :
        /\ reprocessing.stage = "idle"
        /\ ProcessDocument(path, doc_id, "ok", NoFault)
        /\ UNCHANGED <<watching, serving, reprocessing>>
    \/ \E outcome \in {"ok", "write_fails"} : ReprocessAll(outcome)
    \/ \E path \in Paths, doc_id \in Uuids, fault \in Faults(2, FaultKinds) :
        ReprocessFile(path, doc_id, fault)
    \/ ReprocessDone

ReprocessSpec == Init /\ [][ReprocessNext]_vars

----------------------------------------------------------------------------
(* Properties *)

\* the last call ran to its end
Returned(op) == last.op = op /\ last.end = "returned"

\* C1. Contiguity: when every call so far has completed, the index holds positions
\* 0..N-1 (index is a sequence, so its positions are gapless by construction) and
\* N = index.ntotal is the number of rows of the metadata table.
Contiguity == Len(index) = Cardinality(rows)

\* C2. Position-to-row correspondence: when every call so far has completed, each
\* position p of the index has exactly one row whose vector_id is p, and that row
\* is the chunk whose embedding is stored at p.
PositionRowCorrespondence ==
    \A p \in 0..(Len(index) - 1) :
        /\ Cardinality(SelectVector(rows, p)) = 1
        /\ \A r \in SelectVector(rows, p) : r.chunk_id = index[p + 1].src

\* the embedding a chunk was stored with
Embedding(chunk_id) ==
    [dim |-> VECTOR_DIMENSION, dir |-> Direction(chunk_id), len |-> Length(chunk_id)]

\* searching (both searches, every k) with the embedding of chunk_id returns that
\* chunk first, with the score of an exact match
FoundFirst(ix, rs, chunk_id) ==
    \A k \in Ks :
        /\ \A res \in SearchSimilar(ix, rs, Embedding(chunk_id), k, {}) :
            /\ Len(res) >= 1
            /\ res[1].chunk_id = chunk_id
            /\ res[1].score = 1
        /\ \A res \in SearchVectors(ix, rs, Embedding(chunk_id), k) :
            /\ \E m \in res.metadata_list[1] : m.chunk_id = chunk_id
            /\ res.distances[1] = 1

\* C3. Round-trip: a store_vectors call that completed (its batch has pairwise
\* distinct embeddings) is followed by searches that return, for the embedding of
\* each chunk of the batch, that chunk first with score 1.
RoundTrip ==
    [][(last'.op = "store_vectors" /\ last'.end = "returned") =>
        \A p \in (Len(index) + 1)..Len(index') :
            FoundFirst(index', rows', index'[p].src)]_vars


\* a row of the table belongs to the document
HasRow(rs, doc_id) == \E r \in rs : r.doc_id = doc_id

\* some search, for some query, k and filter, returns a result of the document
Found(ix, rs, doc_id) ==
    \E q \in Queries, k \in Ks :
        \/ \E f \in Filters : \E res \in SearchSimilar(ix, rs, q, k, f) :
                \E i \in DOMAIN res : res[i].doc_id = doc_id
        \/ \E res \in SearchVectors(ix, rs, q, k) :
                \E i \in DOMAIN res.metadata_list :
                    \E m \in res.metadata_list[i] : m.doc_id = doc_id

\* get_stats does not count the document
NotCounted(rs, doc_id) ==
    CountDocuments(rs) = Cardinality({r.doc_id : r \in rs} \ {doc_id})

\* C4. Deletion completeness: when remove_document(doc_id) has returned, no row has
\* the doc_id and get_stats does not count it; a document without rows is in no
\* result of search_similar or search_vectors, for any query, k and filter; and a
\* document without rows gets rows again only by a store_vectors call.
DeletionCompleteness ==
    /\ [](Returned("remove_document") =>
            ~HasRow(rows, last.doc) /\ NotCounted(rows, last.doc))
    /\ [](\A d \in DocIds : ~HasRow(rows, d) => ~Found(index, rows, d))
    /\ [][\A d \in DocIds :
            (~HasRow(rows, d) /\ last'.op # "store_vectors") => ~HasRow(rows', d)]_vars

\* remove_document has returned for a stored document while another document stays
DeletionWitness ==
    /\ Returned("remove_document")
    /\ last.why = "none"
    /\ rows # {}
    /\ index # <<>>


\* an embedding of the batch has not the dimension of the index
Malformed(batch) == \E i \in DOMAIN batch : batch[i].values.dim # VECTOR_DIMENSION

\* C5. store_vectors fails atomically on a malformed batch: a call whose batch
\* holds an embedding of the wrong dimension raises, and the index in memory, the
\* metadata table, the index file and its backup are what they were.  (Such a call
\* does not reach _save_index, whose outcome is immaterial to it.)
MalformedBatchRejected ==
    [][\A batch \in Batches :
        (Malformed(batch) /\ StoreVectors(batch, "ok")) =>
            /\ last'.end = "raised"
            /\ UNCHANGED <<index, rows, primary, backup>>]_vars

\* a malformed batch has been rejected by a store that holds vectors and rows
MalformedWitness ==
    /\ last = Ended("store_vectors", NoDoc, "raised", "dimension")
    /\ index # <<>>
    /\ rows # {}

\* C6. A duplicate chunk_id is a caller error: a store_vectors call whose batch
\* holds a chunk_id twice, or a chunk_id the table already has, raises and stores
\* nothing.
DuplicateRejected ==
    [][\A batch \in Batches, outcome \in SaveOutcomes :
        (~FreshBatch(batch) /\ StoreVectors(batch, outcome)) =>
            /\ last'.end = "raised"
            /\ UNCHANGED <<index, rows>>]_vars

\* the calls that persist through _save_index (reset_store replaces the file itself)
SavingOps == {"store_vectors", "remove_document", "remove_vector_by_chunk_id"}

\* C7. Persistence discipline: when _save_index has returned, the primary path holds
\* the new index and the backup is deleted; when its write failed and it raised, the
\* primary path holds again what it held before, a complete index, and never a
\* half-written file.
SaveDiscipline ==
    [][(last'.op \in SavingOps /\ last'.why \in {"none", "save"}) =>
        /\ last'.end = "returned" =>
                primary' = IndexFile(index') /\ ~Exists(backup')
        /\ last'.end = "raised" =>
                primary' = primary /\ Parses(primary') /\ ~Exists(backup')]_vars

\* C8. Load-time recovery: when the constructor finds a primary file that does not
\* parse, it loads the backup if that parses; it creates an empty index only when
\* neither the primary nor the backup yields a valid index.
LoadRecovery ==
    [][last'.op = "construct" =>
        /\ (Exists(primary) /\ ~Parses(primary) /\ Parses(backup)) =>
                index' = backup.ix /\ last'.why = "backup"
        /\ last'.why = "created" => ~Parses(primary) /\ ~Parses(backup)]_vars

\* C9. A failed store_vectors leaves the persisted state unchanged: when the write
\* of _save_index fails during store_vectors (of a well-formed batch of new
\* chunk_ids), the call raises and the metadata table and the index file are what
\* they were before the call.
FailedStoreUnchanged ==
    [][\A batch \in Batches :
        (ReachesSave(batch) /\ FreshBatch(batch) /\ StoreVectors(batch, "write_fails")) =>
            /\ last'.end = "raised"
            /\ rows' = rows
            /\ primary' = primary]_vars

\* C10. Reset finality: when reset_store has returned, get_stats reports no vector,
\* no document and no metadata row, the index in memory is empty, and the primary
\* index file is an empty index that the constructor loads.
ResetFinality ==
    Returned("reset_store") =>
        /\ GetStats.total_vectors = 0
        /\ GetStats.total_documents = 0
        /\ GetStats.vectors_in_metadata = 0
        /\ index = EmptyIndex
        /\ primary = IndexFile(EmptyIndex)
        /\ LoadOrCreateIndex(primary, backup).how = "primary"
        /\ LoadOrCreateIndex(primary, backup).index = EmptyIndex

\* reset_store has returned
ResetWitness == Returned("reset_store")


\* a line of the body that starts a second-level section
IsHeading(line) == StartsWith(line, HeadingPrefix)

\* the lines of the chunks, chunk after chunk
RECURSIVE LinesOf(_)
LinesOf(cs) ==
    IF cs = <<>> THEN <<>> ELSE Split(Head(cs).content, <<>>) \o LinesOf(Tail(cs))

\* C17. Chunk boundary rule: the chunks partition the lines of the body in order
\* (every line of the body is in exactly one chunk, as it is in the body), every
\* chunk but a leading one begins with a heading line, and no chunk has a heading
\* line anywhere but as its first line.
ChunkBoundaryRule ==
    (chunks # <<>> /\ body # <<>>) =>
        /\ LinesOf(chunks) = SplitLines(body)
        /\ \A i \in 2..Len(chunks) : IsHeading(Split(chunks[i].content, <<>>)[1])
        /\ \A i \in 1..Len(chunks) :
            \A j \in 2..Len(Split(chunks[i].content, <<>>)) :
                ~IsHeading(Split(chunks[i].content, <<>>)[j])


\* C18. Chunk identifiers: the i-th chunk (i = 0..n-1, in the order of the body)
\* has chunk_id = doc_id + '_' + i and carries chunk_index = i, total_chunks = n and
\* doc_id in its metadata; the chunk_ids of the document are pairwise distinct and
\* the chunk_index values are exactly 0..n-1.
ChunkIdentifiers ==
    chunks # <<>> =>
        /\ Len(chunks) = Len(SplitSections(body))
        /\ \A i \in 1..Len(chunks) :
            /\ chunks[i].id = chunks[1].id
            /\ chunks[i].content = SplitSections(body)[i]
            /\ chunks[i].chunk_id = chunks[i].id \o <<"_">> \o Decimal(i - 1)
            /\ chunks[i].metadata.chunk_id = chunks[i].chunk_id
            /\ chunks[i].metadata.chunk_index = i - 1
            /\ chunks[i].metadata.total_chunks = Len(chunks)
            /\ chunks[i].metadata.doc_id = chunks[i].id
        /\ \A i, j \in 1..Len(chunks) : i # j => chunks[i].chunk_id # chunks[j].chunk_id
        /\ {chunks[i].metadata.chunk_index : i \in 1..Len(chunks)} = 0..(Len(chunks) - 1)

\* a document of more than ten chunks has been chunked: its indices have one and two
\* digits
ManyChunks == Len(chunks) > 10

\* the positions of the n best vectors of the index for the query, best first
Candidates(ix, q, n) ==
    {SubSeq(r, 1, IF n < Len(ix) THEN n ELSE Len(ix)) : r \in Rankings(ix, q)}

\* the candidates that have a row whose type is in the filter, in their order
Matching(rs, candidates, filter_types) ==
    SelectSeq(candidates,
              LAMBDA p : \E r \in rs : r.vector_id = p /\ r.type \in filter_types)

\* the chunk_ids of the rows of the first k of the matching candidates
FirstMatching(rs, candidates, k, filter_types) ==
    LET matching == Matching(rs, candidates, filter_types)
    IN  [i \in 1..(IF k < Len(matching) THEN k ELSE Len(matching)) |->
            (CHOOSE r \in rs : r.vector_id = matching[i]).chunk_id]

NotFoundSurfaced ==
    [][(/\ last'.op \in {"remove_document", "remove_vector_by_chunk_id"}
        /\ last'.why = "not_found") =>
            /\ last'.end = "raised"
            /\ UNCHANGED <<index, rows, primary, backup>>]_vars

\* C26. store_vectors only adds rows: a store_vectors that returns, for a batch of
\* chunk_ids new to the table and distinct in the batch, leaves every row of the
\* table in place as it was and adds as many rows as the batch has chunks.
StoreOnlyAdds ==
    [][\A batch \in Batches :
        (/\ FreshBatch(batch)
         /\ StoreVectors(batch, "ok")
         /\ last'.end = "returned") =>
            /\ rows \subseteq rows'
            /\ Cardinality(rows') = Cardinality(rows) + Len(batch)]_vars

\* the document a vector of the index was stored for
DocOfVector(entry) == entry.src[1]

\* C27. remove_document(doc_id) affects only that document: when it has removed
\* something and returned, the rows are those of before whose doc_id is not the
\* argument, and the index holds the vectors of before that were not stored for
\* the document, in their order.
RemoveOnlyThat ==
    [][\A doc_id \in DocIds :
        (/\ RemoveDocument(doc_id, "ok")
         /\ last'.why = "none") =>
            /\ rows' = {r \in rows : r.doc_id # doc_id}
            /\ index' = SelectSeq(index, LAMBDA entry : DocOfVector(entry) # doc_id)]_vars

\* the complete indexes on disk: what a file that parses holds
CompleteOnDisk(p, b) ==
    (IF Parses(p) THEN {p.ix} ELSE {}) \cup (IF Parses(b) THEN {b.ix} ELSE {})

\* C28. Crash recovery of the index: the construction that follows a crash inside
\* _save_index, when the primary or the backup file is a complete index, loads
\* one of the complete indexes on disk (it does not start from an empty index
\* when the disk has a better one), and it leaves the complete files as they are.
CrashRecovery ==
    [][(/\ last.end = "crashed"
        /\ last'.op = "construct"
        /\ CompleteOnDisk(primary, backup) # {}) =>
            /\ index' \in CompleteOnDisk(primary, backup)
            /\ Parses(primary) => primary' = primary
            /\ Parses(backup) => backup' = backup]_vars

\* C29. A failed removal keeps memory and metadata in agreement: when the write of
\* _save_index fails inside remove_document or remove_vector_by_chunk_id, the call
\* raises, the rows are those of before the call, and the index in memory holds
\* the vectors of before the call, as many as there are rows.
FailedRemovalAgrees ==
    [][(/\ last'.op \in {"remove_document", "remove_vector_by_chunk_id"}
        /\ last'.end = "raised") =>
            /\ rows' = rows
            /\ index' = index
            /\ Len(index) = Cardinality(rows) => Len(index') = Cardinality(rows')]_vars

\* C30. A failed reset leaves the persisted state unchanged: when reset_store
\* fails while writing or replacing the index file, the metadata table holds the
\* rows of before the call, the index file is what it was, and the index in
\* memory is not swapped.
FailedResetUnchanged ==
    [][(last'.op = "reset_store" /\ last'.end = "raised") =>
            /\ rows' = rows
            /\ primary' = primary
            /\ index' = index]_vars

\* C24. Score range of search results: every result of search_similar, for every
\* unit query, k and filter, has a score that SearchResult accepts: 0 <= score <= 1.
ScoreRange ==
    \A q \in UnitQueries, k \in Ks, filter_types \in Filters :
        \A res \in SearchSimilar(index, rows, q, k, filter_types) :
            \A i \in DOMAIN res : 0 <= res[i].score /\ res[i].score <= 1

----------------------------------------------------------------------------
(* Properties of the pipeline *)

\* the rows of a document
DocRows(rs, doc_id) == {r \in rs : r.doc_id = doc_id}

\* the step is a process_document(path) that returned
Processed(path) ==
    /\ \E doc_id \in Uuids, remove_outcome \in {"ok", "write_fails"} :
            ProcessDocument(path, doc_id, remove_outcome, NoFault)
    /\ last'.end = "returned"

\* process_document(path) returned before, and the file is what it was then
Unchanged(path) ==
    /\ processed[path] # NoEntry
    /\ processed[path].source = sources[path]
    /\ processed[path].doc_id = document_map[path]

\* C11. Idempotent re-processing: a process_document that returns for a path whose
\* file is what it was when process_document returned for it before (the mapping
\* of the path kept) returns the doc_id of that call, and the document has the
\* chunk_ids and the number of chunks in the store that it had after that call.
IdempotentReprocessing ==
    [][\A path \in Paths :
        (Processed(path) /\ Unchanged(path)) =>
            /\ last'.doc = processed[path].doc_id
            /\ DocChunkIds(rows', last'.doc) = processed[path].chunk_ids
            /\ Cardinality(DocRows(rows', last'.doc)) = processed[path].total]_vars

\* the chunk_ids of the chunks process_document makes of the file at the path
ChunkIdsOf(path, doc_id) ==
    LET all == PrepareChunks(sources[path].body, doc_id, sources[path].metadata, path)
    IN  {all[i].chunk_id : i \in DOMAIN all}

\* C12. Re-processing replaces a document's chunks: when process_document returns
\* for a path it has seen before, the removal of the document's old vectors has
\* completed (it did not fail) before the new chunks were inserted, and the rows
\* of the doc_id are exactly the chunks of the file as it is now.
ReprocessingReplaces ==
    [][\A path \in Paths :
        (Processed(path) /\ document_map[path] # NoDoc) =>
            /\ last'.why # "removal_failed"
            /\ DocChunkIds(rows', last'.doc) = ChunkIdsOf(path, last'.doc)]_vars

\* C13. Document removal on a delete event: when the deleted event of a path whose
\* document was processed has been handled, no row and no vector of the index
\* belongs to the document, and the path has no entry in document_map.
RemovedOnDelete ==
    [][\A path \in Paths :
        (OnDeleted(path) /\ processed[path] # NoEntry) =>
            /\ DocRows(rows', processed[path].doc_id) = {}
            /\ \A i \in DOMAIN index' : ~Like(index'[i].src, processed[path].doc_id)
            /\ document_map'[path] = NoDoc]_vars

\* C14. Document identity: process_document returns the doc_id the path has in
\* document_map, when it has one and no deleted event came for the path since it
\* was processed; for a path whose deleted event came since then (the file is
\* there again), it returns a doc_id other than the one the path had.
DocumentIdentity ==
    [][\A path \in Paths :
        (Processed(path) /\ processed[path] # NoEntry) =>
            IF processed[path].deleted
            THEN last'.doc # processed[path].doc_id
            ELSE last'.doc = document_map[path]]_vars

----------------------------------------------------------------------------
(* Properties of DocumentStore's reads *)

\* the rows of the document that carry the chunk_index
WithIndex(tb, doc_id, idx) ==
    SelectSeq(SelectDoc(tb, doc_id), LAMBDA r : r.metadata.chunk_index = idx)

\* the document has rows, and they carry chunk_index 0..n-1, each once
Complete(tb, doc_id) ==
    /\ SelectDoc(tb, doc_id) # <<>>
    /\ \A idx \in 0..(Len(SelectDoc(tb, doc_id)) - 1) : Len(WithIndex(tb, doc_id, idx)) = 1

\* chunk 0 + separator + chunk 1 + ... of a complete document
InIndexOrder(tb, doc_id) ==
    Join([i \in 1..Len(SelectDoc(tb, doc_id)) |-> WithIndex(tb, doc_id, i - 1)[1].content],
         <<NL>>)

\* the metadata is that of chunk 0 of the document, without the keys of the chunk
CommonMetadata(metadata, tb, doc_id) ==
    LET first == WithIndex(tb, doc_id, 0)[1].metadata
    IN  /\ DOMAIN metadata =
                DOMAIN first \ {"chunk_id", "doc_id", "chunk_index", "total_chunks"}
        /\ \A key \in DOMAIN metadata : metadata[key] = first[key]

\* C15. Reconstruction ordering: for a document whose rows carry chunk_index
\* 0..n-1, in whatever order they lie in the table, reconstruct_document returns
\* the contents of the chunks in increasing chunk_index joined by "\n", and the
\* metadata of the first chunk without chunk_id, doc_id, chunk_index, total_chunks.
ReconstructionOrdering ==
    [][\A doc_id \in Uuids :
        (ReconstructDocument(doc_id) /\ Complete(table, doc_id)) =>
            /\ document'.end = "returned"
            /\ document'.content = InIndexOrder(table, doc_id)
            /\ CommonMetadata(document'.metadata, table, doc_id)]_vars

\* a document of three chunks, the last of which was stored first, is reconstructed
ReconstructedOutOfOrder ==
    /\ document.op = "reconstruct_document"
    /\ document.end = "returned"
    /\ \E doc_id \in StoredDocs :
        /\ Complete(table, doc_id)
        /\ Len(SelectDoc(table, doc_id)) = 3
        /\ SelectDoc(table, doc_id)[1].metadata.chunk_index = 2
        /\ document.content = InIndexOrder(table, doc_id)
        /\ CommonMetadata(document.metadata, table, doc_id)

\* a subtype is given that does not belong to the type asked for
Inapplicable(doc_type, project_subtype, other_subtype) ==
    \/ doc_type = "project" /\ other_subtype # None
    \/ doc_type = "other" /\ project_subtype # None

\* the rows of the type, whatever their subtype
OfType(tb, doc_type) == SelectSeq(tb, LAMBDA r : r.metadata.type = doc_type)

\* C19 as it stands. search_by_metadata rejects a subtype that does not apply to
\* the type: called with doc_type project and an other_subtype, or with doc_type
\* other and a project_subtype, it raises.
SubtypeRejected ==
    [][\A doc_type \in QueryTypes, project_subtype \in ProjectSubtypes,
          other_subtype \in OtherSubtypes :
        (/\ Inapplicable(doc_type, project_subtype, other_subtype)
         /\ document'.op = "search_by_metadata"
         /\ SearchByMetadata(doc_type, project_subtype, other_subtype)) =>
            document'.end = "raised"]_vars

\* C19, amended. The route get_documents_by_type rejects a subtype that does not
\* apply to the type with HTTP 400, and returns no row; search_by_metadata itself
\* returns for such a call what it returns without the subtype that does not apply.
SubtypeRejectedByRoute ==
    [][\A doc_type \in QueryTypes, project_subtype \in ProjectSubtypes,
          other_subtype \in OtherSubtypes :
        Inapplicable(doc_type, project_subtype, other_subtype) =>
            /\ (/\ document'.op = "get_documents_by_type"
                /\ GetDocumentsByType(doc_type, project_subtype, other_subtype)) =>
                    /\ document'.end = "raised"
                    /\ document'.why = "400"
                    /\ document'.chunks = <<>>
            /\ (/\ document'.op = "search_by_metadata"
                /\ SearchByMetadata(doc_type, project_subtype, other_subtype)) =>
                    /\ document'.end = "returned"
                    /\ document'.chunks =
                        SearchByMetadataRows(table, doc_type,
                            IF doc_type = "project" THEN project_subtype ELSE None,
                            IF doc_type = "other" THEN other_subtype ELSE None)]_vars

\* the route has rejected a query while the table has a row of a project
RouteRejected ==
    /\ document.op = "get_documents_by_type"
    /\ document.end = "raised"
    /\ document.why = "400"
    /\ OfType(table, "project") # <<>>

\* the chunk_ids of the batch of the file's chunks that the fault is in
FailingBatch(path, doc_id, fault) ==
    LET all == PrepareChunks(sources[path].body, doc_id, sources[path].metadata, path)
        batch == Batch(all, (fault.batch - 1) * BATCH_SIZE + 1)
    IN  {batch[i].chunk_id : i \in DOMAIN batch}

\* C22. Batch failure commits nothing of that batch: when the embedding or the
\* store of a batch fails in _process_chunks (the removal before it having
\* succeeded), process_document raises, and no chunk of the batch is in the
\* metadata table or in the index.
BatchFailureCommitsNothing ==
    [][\A doc_id \in Uuids, fault \in Faults(2, FaultKinds) \ {NoFault} :
        (/\ IsDocument(sources["p.md"])
         /\ ProcessDocument("p.md", doc_id, "ok", fault)) =>
            /\ last'.end = "raised"
            /\ \A chunk_id \in FailingBatch("p.md", doc_id, fault) :
                /\ \A r \in rows' : r.chunk_id # chunk_id
                /\ \A i \in DOMAIN index' : index'[i].src # chunk_id]_vars

\* C23. The pipeline never swallows a mutation failure: when remove_document
\* raises while process_document re-processes a path it has seen, process_document
\* raises and inserts none of the new chunks: the rows are those of before.
RemovalFailureReported ==
    [][\A path \in Paths, doc_id \in Uuids :
        (/\ IsDocument(sources[path])
         /\ DocChunkIds(rows, document_map[path]) # {}
         /\ ProcessDocument(path, doc_id, "write_fails", NoFault)) =>
            /\ last'.end = "raised"
            /\ rows' = rows]_vars

\* C25. Dry-run mode: in a service started with --dry-run, process_document of a
\* valid document completes without error and changes neither the index nor the
\* metadata rows nor the index files.
DryRunCompletes ==
    [][\A path \in Paths, doc_id \in Uuids :
        ProcessDocumentDryRun(path, doc_id) /\ IsDocument(sources[path])
            => /\ last'.end = "returned"
               /\ <<index, rows, primary, backup>>' = <<index, rows, primary, backup>>]_vars

\* the timers of the path have all run, and no process_change is inside the lock
Settled(path) == {t \in timers : t.path = path} = {} /\ running = {}

\* C21, as stated. Debounce by staleness check: a process_change task calls
\* process_document exactly when its change_time equals pending_changes[path] as it
\* runs and changes nothing otherwise; a path whose events were all handled before
\* any of its timers ran gets at most one process_document call; and a task that is
\* not the one of the path's newest event is never applied.
SupersededNeverApplied ==
    [][\A task \in Tasks, doc_id \in Uuids :
        ProcessChange(task, doc_id)
            => /\ IF pending_changes[task.path] = task.change_time
                  THEN calls'[task.path] = calls[task.path] + 1
                  ELSE UNCHANGED <<index, rows, primary, backup, last, pipeline, calls,
                                   pending_changes>>
               /\ ~late[task.path] => calls'[task.path] <= 1
               /\ calls' # calls => task.event = events[task.path]]_vars

\* C21, amended. As above, but the task never applied is the one whose change_time
\* differs from the time of the path's newest event: of two events that time.time()
\* gave the same value, the task of the older one may be the one applied.
DebounceByStaleness ==
    [][\A task \in Tasks, doc_id \in Uuids :
        ProcessChange(task, doc_id)
            => /\ IF pending_changes[task.path] = task.change_time
                  THEN calls'[task.path] = calls[task.path] + 1
                  ELSE UNCHANGED <<index, rows, primary, backup, last, pipeline, calls,
                                   pending_changes>>
               /\ ~late[task.path] => calls'[task.path] <= 1
               /\ calls' # calls => task.change_time = newest[task.path]]_vars

\* a burst of two events at different times (the first of the run at 1, the second
\* at 2) whose timers have both run: one task was applied, the other was a no-op
BurstProcessedOnce ==
    \E path \in Paths :
        /\ events[path] = 2
        /\ \A other \in Paths \ {path} : events[other] = 0
        /\ newest[path] = 2
        /\ ~late[path]
        /\ Settled(path)
        /\ calls[path] = 1
        /\ pending_changes[path] = NoTime

\* C38. reconstruct_document fails when the document has no chunks: for a doc_id
\* without a row in the metadata table it raises, returns no content, and leaves the
\* table, the index and the index files as they were.
ReconstructNothingRaises ==
    [][\A doc_id \in Uuids :
        (/\ document'.op = "reconstruct_document"
         /\ SelectDoc(table, doc_id) = <<>>
         /\ ReconstructDocument(doc_id)) =>
            /\ document'.end = "raised"
            /\ document'.why = "no_document"
            /\ document'.content = <<>>
            /\ UNCHANGED <<table, index, rows, primary, backup>>]_vars

\* a table that holds rows of other documents was asked for a document it has no
\* row of
ReconstructedNothing ==
    /\ table # <<>>
    /\ document.op = "reconstruct_document"
    /\ document.end = "raised"

\* C31. The path->doc_id mapping is updated together with the insert: after a
\* process_document for a path that had no entry in document_map, whether it returned
\* or raised, the path has an entry only if rows of that doc_id are in the table.
MappedWithInsert ==
    [][\A doc_id \in Uuids, remove_outcome \in {"ok", "write_fails"} :
        \A fault \in Faults(2, FaultKinds) :
            (/\ document_map["p.md"] = NoDoc
             /\ ProcessDocument("p.md", doc_id, remove_outcome, fault)
             /\ document_map'["p.md"] # NoDoc) =>
                DocRows(rows', document_map'["p.md"]) # {}]_vars

\* total_chunks as the chunks of the file at the path carry it
TotalChunks(path, doc_id) ==
    Len(PrepareChunks(sources[path].body, doc_id, sources[path].metadata, path))

\* C32. Document completeness: after a process_document of a new path, returned or
\* raised, its doc_id is either absent from the metadata table or has exactly the
\* rows of chunk_index 0..total_chunks-1, total_chunks being what its chunks carry.
DocumentCompleteness ==
    [][\A doc_id \in Uuids, remove_outcome \in {"ok", "write_fails"} :
        \A fault \in Faults(2, FaultKinds) :
            (/\ document_map["p.md"] = NoDoc
             /\ IsDocument(sources["p.md"])
             /\ ProcessDocument("p.md", doc_id, remove_outcome, fault)) =>
                \/ DocRows(rows', doc_id) = {}
                \/ /\ DocChunkIds(rows', doc_id) =
                        {FormatChunkId(doc_id, idx) :
                            idx \in 0..(TotalChunks("p.md", doc_id) - 1)}
                   /\ Cardinality(DocRows(rows', doc_id)) = TotalChunks("p.md", doc_id)]_vars

\* C33. No change is lost by the debounce: once the n-th created/modified event of
\* a path is handled, process_change eventually calls process_document for the
\* path at a time after that event.
NoChangeLost ==
    \A n \in 1..MaxEvents : (events["p.md"] = n) ~> (served["p.md"] >= n)

\* C34. Watcher processing is serialized: at most one process_change is inside
\* process_document at any time, whatever the paths of the tasks.
Serialized == Cardinality(running) <= 1

\* a process_change is inside process_document while a timer of the same path and a
\* timer of another path are waiting
OthersWait ==
    \E task \in running : \E same, other \in timers :
        same.path = task.path /\ other.path # task.path

\* the hits of the search under way that have a row as the table is now
WithRow(rs, hits) == {i \in DOMAIN hits : SelectVector(rs, hits[i].idx) # {}}

\* C35. Search racing with removal: a search_similar whose index.search and whose
\* reads of the table fall on either side of a step of remove_document returns: a
\* position without a row is passed over, every result is a row the table holds at
\* one of the positions found, and there is one result per position that has a row.
RacingSearchSkips ==
    [][(search.stage = "searched" /\ SearchRows) =>
        /\ answer'.end = "returned"
        /\ Len(answer'.results) = Min(search.k, Cardinality(WithRow(rows, search.hits)))
        /\ \A i \in DOMAIN answer'.results :
            \E r \in rows :
                /\ r.chunk_id = answer'.results[i].chunk_id
                /\ r.vector_id \in Positions(search.hits) \ answer'.missing]_vars

\* a search found positions that all had the row of their vector, remove_document
\* committed before the search read the table, and a position had no row any more
RacedSearch ==
    /\ answer.end = "returned"
    /\ answer.sound
    /\ answer.overlap
    /\ answer.missing # {}

\* the chunks whose vectors an index holds, and the chunks the table has rows of
Indexed(ix) == {ix[i].src : i \in DOMAIN ix}
Tabled(rs) == {r.chunk_id : r \in rs}

\* C36. Retrieval sees the pipeline's mutations: whenever the API server searches,
\* after whatever stores and removals the document processor has completed, the
\* index it searches and the rows it joins against describe the same set of vectors.
ApiSeesPipeline ==
    [][(\E q \in UnitQueries, k \in Ks : ApiSearch(q, k, {})) =>
        Indexed(api_index) = Tabled(rows)]_vars

\* the doc_ids that have a row, and those that have a vector in the index (a
\* chunk_id begins with its doc_id)
Stored ==
    {r.doc_id : r \in rows} \cup
    {doc_id \in Uuids : \E i \in DOMAIN index :
        SubSeq(index[i].src, 1, Len(doc_id)) = doc_id}

\* C37. Full reprocessing: before the first file is processed the mapping is empty
\* and the store is empty; when the run ends every file found has been processed
\* and counted as processed or as an error; the store then holds only chunks of
\* doc_ids issued during the run, and every path whose process_document returned
\* is mapped to the doc_id under which all its chunks are stored.
FullReprocessing ==
    /\ (reprocessing.stage = "files" /\ reprocessing.todo = reprocessing.found) =>
            /\ document_map = ClearedMap
            /\ rows = {}
            /\ index = EmptyIndex
    /\ reprocessing.stage = "done" =>
            /\ reprocessing.processed + reprocessing.errors =
                    Cardinality(reprocessing.found)
            /\ Len(reprocessing.log) = Cardinality(reprocessing.found)
            /\ Stored \cap reprocessing.before = {}
            /\ \A path \in reprocessing.returned :
                LET doc_id == document_map[path]
                    source == processed[path].source
                    total == Len(PrepareChunks(source.body, doc_id, source.metadata, path))
                IN  /\ doc_id \in Uuids \ reprocessing.before
                    /\ DocChunkIds(rows, doc_id) =
                            {FormatChunkId(doc_id, idx) : idx \in 0..(total - 1)}
                    /\ Cardinality(DocRows(rows, doc_id)) = total

\* a store that held chunks was reprocessed: the first file failed, the second was
\* processed all the same, and its chunks are in the store
ReprocessedPastFailure ==
    /\ reprocessing.stage = "done"
    /\ reprocessing.before # {}
    /\ reprocessing.log = <<"raised", "returned">>
    /\ rows # {}

============================================================================
